---- MODULE Spec2Model ----
(***************************************************************************)
(* Verification model of the Migration-Scripts repository: the secrets and *)
(* variables migrators (transport, paginated collector, probe-then-create  *)
(* and create-then-update pipelines), the ruleset import and the webhook   *)
(* import.  Each pipeline has its own specification over the shared        *)
(* variables; the variables of the other pipelines stay at their initial   *)
(* values.                                                                 *)
(***************************************************************************)
EXTENDS Integers, Sequences, FiniteSets, TLC

VARIABLES
    \* ---- paginated collector (_get_paginated_data) ----
    pg_kind,        \* which migrator's collector: "secrets" or "variables"
    pg_N,           \* number of items the upstream collection holds
    pg_shape,       \* upstream page shape: "list", or the wrapper's collection key
    page,           \* local `page` of _get_paginated_data
    all_data,       \* local `all_data` of _get_paginated_data
    pg_pc,          \* "loop" | "returned" | "raised"
    pg_non200,      \* ghost: a page request was answered with a status other than 200
    pg_upstream,    \* how the upstream pages: "paged" | "always-full"
    \* ---- repository migrator (GitHubMigrator._get_all_paginated_items) ----
    gp_pc,          \* "idle" | "loop" | "returned"
    gp_page,        \* local `page`
    all_items,      \* local `all_items`: each item is the number of its page
    gp_requested,   \* ghost: the last page number requested (0: none yet)
    gp_ended,       \* ghost: a request came back empty, failed or short
    \* ---- team fetcher (GitHubTeamFetcher.make_api_request) ----
    tf_pc,          \* "idle" | "loop" | "returned" | "raised"
    tf_attempt,     \* the loop variable `attempt`
    tf_clock,       \* time.time(), in half seconds
    tf_issued,      \* ghost: the time of each request, in call order
    tf_answers,     \* ghost: what each request came back with
    tf_result,      \* what the call returned or raised (NoAnswer: nothing yet)
    faults,         \* ghost: number of injected upstream faults so far
    \* ---- rate limiting (_make_request / _handle_rate_limit) ----
    now,                    \* the clock, in seconds
    rate_limit_remaining,   \* self.rate_limit_remaining
    rate_limit_reset,       \* self.rate_limit_reset (-1: None)
    rl_floor,               \* ghost: latest reset time a received low-quota response named
    rl_issuedAt,            \* ghost: when the last request was issued (-1: none yet)
    rl_floorAtIssue,        \* ghost: rl_floor when the last request was issued
    rl_slept,               \* ghost: the last _make_request slept in _handle_rate_limit
    \* ---- secrets / variables migrator (migrate_secrets, migrate_variables) ----
    migrator,               \* "secrets" | "variables" | "none"
    data,                   \* secrets_data / variables_data: the list being migrated
    create_placeholder,     \* migrate_secrets' create_placeholder
    target,                 \* target organization: entity key -> stored entity
    target_repos,           \* names of the repositories of the target organization
    target_repo_mapping,    \* self.target_repo_mapping: names mapped to target ids
    org_public_key_cache,   \* self.org_public_key_cache: organizations with a cached key
    repo_public_key_cache,  \* self.repo_public_key_cache: org/repo scopes with a cached key
    run,                    \* which run of migrate_* over `data` (1 or 2)
    idx,                    \* index of the next entry of the for loop
    success_count,          \* locals of migrate_*
    error_count,
    skipped_count,
    returned,               \* run -> the tuple migrate_* returned (<<>>: not yet)
    outcome,                \* ghost: run -> the disposition of each entry, in order
    last_call,              \* ghost: the requests of the last create_* call
    put_count,              \* ghost: run -> number of write requests (PUT, POST, PATCH) issued
    start_target,           \* ghost: run -> the target when the run started
    overwrote,              \* ghost: a write replaced an entity the target already held
    auth_failed,            \* ghost: a request of an earlier entry of this run was
                            \*        answered 401, or 403 with quota left
    rc_pc,                  \* run_complete_migration / run_migration: "idle" | "direct"
                            \*        (migrate_* called with a list) | "fetch" |
                            \*        "migrate" | "returned" | "raised"
    source_answer,          \* what the source organization answers to a request
    source_entries,         \* the entities the source organization holds
    rc_requests,            \* ghost: the requests this process has sent
    list_count,             \* ghost: listings of the target's repositories this
                            \*        process has made
    malformed_keys,         \* the scopes of the target whose public key is not
                            \*        valid base64 (encrypt_secret raises on it)
    \* ---- rulesets import (import_rulesets_for_repo) ----
    rulesets_to_create,     \* the exported rulesets handed to the import, by name
    rs_target,              \* the target repository's rulesets, by name, in id order
    rs_unique,              \* the upstream refuses a second ruleset of the same name
    existing_rulesets,      \* local of import_rulesets_for_repo: name -> id
    report_entries,         \* local of import_rulesets_for_repo: migration_status per entry
    rs_pc,                  \* "idle" | "check" | "loop" | "done" | "raised"
    rs_i,                   \* index of the next ruleset of the for loop
    rs_run,                 \* which import over rulesets_to_create (1 or 2)
    rs_first,               \* ghost: the report the first import returned
    rs_posts,               \* ghost: POST requests issued by the current import
    rs_actors,              \* the bypass actor fields of those rulesets, by position
    SANITIZE_BYPASS_ACTORS,     \* module flag of rulesets.py
    REMOVE_ALL_BYPASS_ACTORS,   \* module flag of rulesets.py
    target_teams,           \* slugs of the teams the target organization holds
    start_teams,            \* ghost: target_teams when the import started
    rs_requests,            \* ghost: the requests the current import has sent
    rs_payloads,            \* ghost: the create payloads the current import has sent
    SOURCE_GITHUB_TOKEN,    \* module globals of rulesets.py ("": None or empty)
    TARGET_GITHUB_TOKEN,
    GITHUB_TOKEN,
    rs_credentials,         \* ghost: the tokens the requests to the target carried
    report_file,            \* REPORT_FILE: the records written (<<>>: not written)
    \* ---- webhooks import (GitHubWebhookMigrator.import_webhooks) ----
    exported_data,          \* exported_data['repositories']: entries in file order
    wh_repos,               \* the repositories the target organization holds
    wh_hooks,               \* target repository -> URLs of its hooks, in id order
    existing_target_hooks,  \* local of import_webhooks: URLs listed for the repository
    migration_results,      \* self.migration_results: status per record
    wh_pc,                  \* "idle" | "repo" | "hooks" | "done" | "raised"
    wh_r,                   \* index of the next repository entry
    wh_h,                   \* index of the next webhook of the entry
    wh_run,                 \* which import_webhooks run
    wh_dup_calls            \* ghost: create_hook calls for a URL the repository held

gpVars == <<gp_pc, gp_page, all_items, gp_requested, gp_ended>>
tfVars == <<tf_pc, tf_attempt, tf_clock, tf_issued, tf_answers, tf_result>>
pgVars == <<pg_kind, pg_N, pg_shape, page, all_data, pg_pc, pg_non200, pg_upstream,
            gpVars, tfVars>>
rlVars == <<now, rate_limit_remaining, rate_limit_reset, rl_floor, rl_issuedAt,
            rl_floorAtIssue, rl_slept>>
mgVars == <<migrator, data, create_placeholder, target, target_repos,
            target_repo_mapping, org_public_key_cache, repo_public_key_cache,
            run, idx, success_count, error_count, skipped_count, returned,
            outcome, last_call, put_count, start_target, overwrote, auth_failed,
            rc_pc, source_answer, source_entries, rc_requests, list_count,
            malformed_keys>>
rsVars == <<rulesets_to_create, rs_target, rs_unique, existing_rulesets,
            report_entries, rs_pc, rs_i, rs_run, rs_first, rs_posts,
            rs_actors, SANITIZE_BYPASS_ACTORS, REMOVE_ALL_BYPASS_ACTORS,
            target_teams, start_teams, rs_requests, rs_payloads,
            SOURCE_GITHUB_TOKEN, TARGET_GITHUB_TOKEN, GITHUB_TOKEN,
            rs_credentials, report_file>>
\* What the module reads from the environment when it is loaded.
rsConfig == <<SOURCE_GITHUB_TOKEN, TARGET_GITHUB_TOKEN, GITHUB_TOKEN>>
whVars == <<exported_data, wh_repos, wh_hooks, existing_target_hooks,
            migration_results, wh_pc, wh_r, wh_h, wh_run, wh_dup_calls>>
vars == <<pgVars, faults, rlVars, mgVars, rsVars, whVars>>

----------------------------------------------------------------------------
(* Bounds of the model *)

MaxItems == 201     \* largest upstream collection the collector is run against
MaxPages == 100     \* page requests the collector is followed for
MaxListed == 3      \* longest list of rulesets in which names may repeat
MaxFaults == 1      \* injected upstream faults per behaviour
StartTime == 20     \* the clock's value when the migrator is constructed
MaxTime == 16       \* requests are issued up to StartTime + MaxTime
MaxDelay == 3       \* a response's reset lies at most MaxDelay after its arrival
MaxLatency == 1     \* seconds between a request and its response
MaxEntries == 2     \* longest list handed to migrate_secrets / migrate_variables
MaxPreExisting == 1 \* entities the target holds before the first run
MaxRulesets == 31   \* longest list handed to import_rulesets_for_repo
MaxOther == 1       \* rulesets of other names the target repository holds at first
MaxRepoEntries == 2 \* repository entries of the webhooks export file
MaxHooks == 2       \* webhooks of one repository entry
MaxRuns == 2        \* import runs over the same input
MaxExported == 2    \* longest export whose rulesets carry bypass actors
MaxActors == 2      \* longest bypass_actors list of one exported ruleset

----------------------------------------------------------------------------
(* Transport: requests.Session with urllib3 Retry, _make_request *)

\* Retry(total=3, ...)
retry_total == 3
\* Retry(status_forcelist=[429, 500, 502, 503, 504])
status_forcelist == {429, 500, 502, 503, 504}
\* Retry() is built without allowed_methods: urllib3's default, the idempotent
\* methods.  POST and PATCH are not retried on a status of the forcelist.
allowed_methods == {"GET", "PUT", "DELETE", "HEAD", "OPTIONS", "TRACE"}

\* What the upstream does to one call.  "ok": it answers as its state says.
\* Otherwise the first j raw answers are the injected answer a, and the
\* upstream answers as its state says from then on.  "conn" is a connect
\* error; "403rl" is a 403 that reports the quota exhausted.
InjectedAnswers == {"401", "403", "403rl", "429", "500", "conn"}
Scenarios ==
    {[a |-> "ok", j |-> 0]}
    \cup {[a |-> x, j |-> 1] : x \in InjectedAnswers}
    \cup {[a |-> x, j |-> retry_total + 1] : x \in {"429", "500", "conn"}}

StatusOf(a) ==
    CASE a = "401" -> 401
      [] a = "403" -> 403
      [] a = "403rl" -> 403
      [] a = "429" -> 429
      [] a = "500" -> 500
      [] OTHER -> 0

\* session.request(method, url): the outcome the adapter hands back.
\* status 0 stands for "the answer the upstream's state determines".
\* A connect error, and a forcelist status on an allowed method, is retried
\* up to retry_total times and then raised (RetryError / ConnectionError).
SessionRequest(method, scen) ==
    IF scen.a = "ok"
    THEN [kind |-> "resp", status |-> 0, sent |-> 1]
    ELSE IF scen.a = "conn"
            \/ (StatusOf(scen.a) \in status_forcelist /\ method \in allowed_methods)
         THEN IF scen.j > retry_total
              THEN [kind |-> "exc", status |-> StatusOf(scen.a), sent |-> retry_total + 1]
              ELSE [kind |-> "resp", status |-> 0, sent |-> scen.j + 1]
         ELSE [kind |-> "resp", status |-> StatusOf(scen.a), sent |-> 1]

\* The scenarios still allowed when f faults have been injected.
ScenariosWithin(f) == IF f < MaxFaults THEN Scenarios ELSE {[a |-> "ok", j |-> 0]}
FaultCost(scen) == IF scen.a = "ok" THEN 0 ELSE 1

----------------------------------------------------------------------------
(* Rate limiting: _handle_rate_limit and _make_request, with the clock *)

\* self.rate_limit_remaining < 10
low_water == 10
\* (reset_time - datetime.now()).total_seconds() + 10
safety_margin == 10
\* self.rate_limit_remaining = 5000
initial_remaining == 5000

\* A transport that waits only once the quota is spent.
ShouldWait_OnlyWhenZero(status, remaining) == status = 429 \/ remaining <= 0
\* response.status_code == 429 or self.rate_limit_remaining < 10
ShouldWait(status, remaining) == status = 429 \/ remaining < low_water

\* wait_time of _handle_rate_limit at clock t.
WaitTime(reset, t) == reset - t + safety_margin

\* The clock after _handle_rate_limit ran at clock t: time.sleep(wait_time)
\* when the wait is due and positive.
AfterHandleRateLimit(status, remaining, reset, t) ==
    IF ShouldWait(status, remaining) /\ WaitTime(reset, t) > 0
    THEN t + WaitTime(reset, t)
    ELSE t

\* The headers a response may carry; a missing header reads as 0
\* (response.headers.get(..., 0)).
RemainingValues == {0, low_water - 1, low_water, initial_remaining - 1}
ResetValues(t) == {0} \cup {t + d : d \in (-1)..MaxDelay}

RlInit ==
    /\ now = StartTime
    /\ rate_limit_remaining = initial_remaining
    /\ rate_limit_reset = -1
    /\ rl_floor = 0
    /\ rl_issuedAt = -1
    /\ rl_floorAtIssue = 0
    /\ rl_slept = FALSE

\* Time passes between two requests.
RlTick ==
    /\ now < StartTime + MaxTime
    /\ now' = now + 1
    /\ UNCHANGED <<rate_limit_remaining, rate_limit_reset, rl_floor, rl_issuedAt,
                   rl_floorAtIssue, rl_slept>>
    /\ UNCHANGED <<pgVars, faults, mgVars, rsVars, whVars>>

\* What session.request may hand to _make_request, over the methods the
\* migrators use and the upstream's scenarios.
SessionOutcomes ==
    {[kind |-> SessionRequest(method, scen).kind,
      status |-> SessionRequest(method, scen).status] :
        method \in {"GET", "PUT", "POST", "PATCH"}, scen \in Scenarios}

\* One call of _make_request(session, method, url): the request is issued at
\* `now`; the adapter may re-issue it (each re-issue is later than `now`);
\* the response that reaches _make_request arrives lat seconds later and
\* _handle_rate_limit reads its headers and may sleep.  When session.request
\* raises, _handle_rate_limit does not run.
RlMakeRequest ==
    /\ now <= StartTime + MaxTime
    /\ \E out \in SessionOutcomes, lat \in 0..MaxLatency :
         LET arrive == now + lat
         IN /\ rl_issuedAt' = now
            /\ rl_floorAtIssue' = rl_floor
            /\ IF out.kind = "exc"
               THEN /\ now' = arrive
                    /\ rl_slept' = FALSE
                    /\ UNCHANGED <<rate_limit_remaining, rate_limit_reset, rl_floor>>
               ELSE \E remaining \in RemainingValues, reset \in ResetValues(arrive) :
                      LET status == IF out.status = 0 THEN 200 ELSE out.status
                          woke == AfterHandleRateLimit(status, remaining, reset, arrive)
                      IN /\ rate_limit_remaining' = remaining
                         /\ rate_limit_reset' = reset
                         /\ now' = woke
                         /\ rl_slept' = (woke > arrive)
                         /\ rl_floor' = IF remaining < low_water /\ reset > arrive
                                           /\ reset > rl_floor
                                        THEN reset ELSE rl_floor
    /\ UNCHANGED <<pgVars, faults, mgVars, rsVars, whVars>>

----------------------------------------------------------------------------
(* Paginated collector: _get_paginated_data *)

per_page == 100

\* The items 1..n in upstream order.
Items(n) == [i \in 1..n |-> i]

\* The upstream's page p of a collection of n items, per_page items a page.
UpstreamPage(n, p) ==
    LET first == (p - 1) * per_page + 1
        last == IF p * per_page < n THEN p * per_page ELSE n
    IN IF first > n THEN <<>> ELSE [i \in 1..(last - first + 1) |-> first + i - 1]

\* What the upstream answers to the request for page p: its page p, or, when
\* it pages inconsistently, a full page for every page number.
UpstreamAnswer(upstream, n, p) ==
    IF upstream = "always-full"
    THEN [i \in 1..per_page |-> (p - 1) * per_page + i]
    ELSE UpstreamPage(n, p)

\* response.json(): a bare array, or a wrapper object (with total_count) that
\* holds the page under its collection key.
PageBody(shape, items) ==
    IF shape = "list" THEN [type |-> "list", key |-> "", items |-> items]
    ELSE [type |-> "dict", key |-> shape, items |-> items]

\* `not data`: an empty array; a wrapper object always holds total_count.
Falsy(body) == body.type = "list" /\ body.items = <<>>

\* data.get('repositories', data.get('secrets', [])) -- 'variables' in the
\* variables migrator.
OwnKey(kind) == IF kind = "secrets" THEN "secrets" ELSE "variables"
DictItems(kind, body) ==
    IF body.key = "repositories" THEN body.items
    ELSE IF body.key = OwnKey(kind) THEN body.items
    ELSE <<>>

PageItems(kind, body) == IF body.type = "list" THEN body.items ELSE DictItems(kind, body)

\* A collector that takes a full page for the last one.
PageIsLast_Inclusive(items) == Len(items) <= per_page
\* len(data) < per_page / len(items) < per_page
PageIsLast(items) == Len(items) < per_page

\* The wrapper keys the collectors' endpoints answer with.
Shapes(kind) == {"list", "repositories", OwnKey(kind)}

\* _get_all_paginated_items is not running.
GpIdle ==
    /\ gp_pc = "idle" /\ gp_page = 1 /\ all_items = <<>>
    /\ gp_requested = 0 /\ gp_ended = FALSE

\* No response and no exception.
NoAnswer == [kind |-> "none", status |-> 0, limited |-> FALSE, reset_time |-> 0]

\* GitHubTeamFetcher.make_api_request is not running.
TfIdle ==
    /\ tf_pc = "idle" /\ tf_attempt = 0 /\ tf_clock = 0
    /\ tf_issued = <<>> /\ tf_answers = <<>> /\ tf_result = NoAnswer

PgInitWith(upstream, sizes) ==
    /\ GpIdle /\ TfIdle
    /\ pg_kind \in {"secrets", "variables"}
    /\ pg_upstream = upstream
    /\ pg_N \in sizes
    /\ pg_shape \in Shapes(pg_kind)
    /\ page = 1
    /\ all_data = <<>>
    /\ pg_pc = "loop"
    /\ pg_non200 = FALSE

PgInit == PgInitWith("paged", 0..MaxItems)

\* One iteration of the while loop: the page request and what follows it.
PgFetchPage ==
    /\ pg_pc = "loop"
    /\ page <= MaxPages
    /\ \E scen \in ScenariosWithin(faults) :
         LET out == SessionRequest("GET", scen)
             body == PageBody(pg_shape, UpstreamAnswer(pg_upstream, pg_N, page))
             items == PageItems(pg_kind, body)
         IN /\ faults' = faults + FaultCost(scen)
            /\ IF out.kind = "exc"
               THEN /\ pg_pc' = "raised"
                    /\ UNCHANGED <<page, all_data, pg_non200>>
               ELSE IF out.status # 0
               THEN \* response.status_code != 200: break
                    /\ pg_pc' = "returned"
                    /\ pg_non200' = TRUE
                    /\ UNCHANGED <<page, all_data>>
               ELSE IF Falsy(body)
               THEN /\ pg_pc' = "returned"
                    /\ UNCHANGED <<page, all_data, pg_non200>>
               ELSE /\ all_data' = all_data \o items
                    /\ IF PageIsLast(items)
                       THEN pg_pc' = "returned" /\ page' = page
                       ELSE pg_pc' = "loop" /\ page' = page + 1
                    /\ UNCHANGED pg_non200
    /\ UNCHANGED <<pg_kind, pg_N, pg_shape, pg_upstream, gpVars, tfVars>>
    /\ UNCHANGED <<rlVars, mgVars, rsVars, whVars>>

PgOnlyIdle ==
    /\ pg_kind = "secrets" /\ pg_N = 0 /\ pg_shape = "list" /\ page = 1
    /\ all_data = <<>> /\ pg_pc = "idle" /\ pg_non200 = FALSE
    /\ pg_upstream = "paged"

PgIdle == PgOnlyIdle /\ GpIdle /\ TfIdle

----------------------------------------------------------------------------
(* GitHubMigrator._make_github_request and _get_all_paginated_items *)

\* max_retries = 3
max_retries == 3
\* if page > 100:  # Max 10,000 items
max_pages == 100

\* What the upstream answers to one attempt: a status, or 0 when requests.get
\* raises.
GithubAnswers == {200, 403, 404, 500, 0}

RECURSIVE GithubRequestFrom(_, _)
\* The for loop of _make_github_request from `attempt` on: "json" for
\* response.json(), "None" for None.  403 sleeps and continues; an exception
\* backs off and continues unless it is the last attempt; any other status
\* returns None.
GithubRequestFrom(answers, attempt) ==
    IF attempt > max_retries THEN "None"
    ELSE IF answers[attempt] = 200 THEN "json"
    ELSE IF answers[attempt] \in {403, 0} THEN GithubRequestFrom(answers, attempt + 1)
    ELSE "None"

make_github_request(answers) == GithubRequestFrom(answers, 1)

\* The lengths of the pages the upstream serves: never more than the
\* per_page items it is asked for.
PageSizes == {0, 1, per_page - 1, per_page}

\* A collector without the safety check.
PastLimit_Never(p) == FALSE
\* if page > 100: break
PastLimit(p) == p > max_pages

GpInit ==
    /\ gp_pc = "loop" /\ gp_page = 1 /\ all_items = <<>>
    /\ gp_requested = 0 /\ gp_ended = FALSE

\* One iteration of the while loop of _get_all_paginated_items.
GpFetchPage ==
    /\ gp_pc = "loop"
    /\ \E answers \in [1..max_retries -> GithubAnswers], n \in PageSizes :
         LET response == make_github_request(answers)
             items == IF response = "None" THEN <<>> ELSE [i \in 1..n |-> gp_page]
         IN /\ gp_requested' = gp_page
            /\ IF items = <<>>
               THEN /\ gp_pc' = "returned"
                    /\ gp_ended' = TRUE
                    /\ UNCHANGED <<gp_page, all_items>>
               ELSE /\ all_items' = all_items \o items
                    /\ IF Len(items) < per_page
                       THEN /\ gp_pc' = "returned"
                            /\ gp_ended' = TRUE
                            /\ UNCHANGED gp_page
                       ELSE /\ gp_page' = gp_page + 1
                            /\ gp_pc' = IF PastLimit(gp_page + 1) THEN "returned"
                                        ELSE "loop"
                            /\ UNCHANGED gp_ended
    /\ UNCHANGED <<pg_kind, pg_N, pg_shape, page, all_data, pg_pc, pg_non200,
                   pg_upstream, tfVars>>
    /\ UNCHANGED <<faults, rlVars, mgVars, rsVars, whVars>>

----------------------------------------------------------------------------
(* Team fetcher: GitHubTeamFetcher.make_api_request *)

\* self.max_retries = 3
fetcher_max_retries == 3
\* self.rate_limit_delay = 0.5 and self.retry_delay = 60 seconds, in half
\* seconds, the unit of tf_clock.
rate_limit_delay == 1
retry_delay == 120

\* What requests.request comes back with: a RequestException, or a response
\* with its status, whether its text holds 'rate limit exceeded', and its
\* X-RateLimit-Reset header (0 when the header is missing).
TfException == [kind |-> "exception", status |-> 0, limited |-> FALSE, reset_time |-> 0]
TfResponse(status, limited, reset_time) ==
    [kind |-> "response", status |-> status, limited |-> limited,
     reset_time |-> reset_time]

\* The reset times a response that arrives at t may report: none, one that
\* has passed, one within retry_delay and one beyond it.
TfResetValues(t) == {0, t - 2, t + 2, t + retry_delay + 2}

TfAnswers(t) ==
    {TfException}
    \cup {TfResponse(status, FALSE, 0) : status \in {200, 404, 403, 500}}
    \cup {TfResponse(403, TRUE, r) : r \in TfResetValues(t)}

\* A sleep that ignores the reported reset time.
SleepTime_RetryDelay(reset_time, current_time) == retry_delay
\* sleep_time = max(reset_time - current_time, self.retry_delay)
SleepTime(reset_time, current_time) ==
    IF reset_time - current_time > retry_delay
    THEN reset_time - current_time ELSE retry_delay

\* backoff_time = (2 ** attempt) * self.rate_limit_delay
BackoffTime(a) == (2 ^ a) * rate_limit_delay

\* response.status_code == 403 and 'rate limit exceeded' in response.text.lower()
RateLimitExceeded(response) == response.status = 403 /\ response.limited

\* response.status_code >= 400 and response.status_code != 404
RetryableStatus(response) == response.status >= 400 /\ response.status # 404

TfInit ==
    /\ tf_pc = "loop" /\ tf_attempt = 0 /\ tf_clock = StartTime
    /\ tf_issued = <<>> /\ tf_answers = <<>> /\ tf_result = NoAnswer

\* One iteration of the for loop of make_api_request: the delay, the request
\* (answered lat half seconds later) and what follows it; the return after
\* the loop is part of the last iteration.
TfAttempt ==
    /\ tf_pc = "loop"
    /\ tf_attempt < fetcher_max_retries
    /\ \E lat \in 0..MaxLatency :
       \E response \in TfAnswers(tf_clock + rate_limit_delay + lat) :
         LET issued == tf_clock + rate_limit_delay
             current_time == issued + lat
             last == tf_attempt = fetcher_max_retries - 1
         IN /\ tf_issued' = Append(tf_issued, issued)
            /\ tf_answers' = Append(tf_answers, response)
            /\ IF response.kind = "exception"
               THEN IF ~last
                    THEN /\ tf_clock' = current_time + BackoffTime(tf_attempt)
                         /\ tf_attempt' = tf_attempt + 1
                         /\ UNCHANGED <<tf_pc, tf_result>>
                    ELSE /\ tf_pc' = "raised"
                         /\ tf_result' = response
                         /\ tf_clock' = current_time
                         /\ UNCHANGED tf_attempt
               ELSE IF RateLimitExceeded(response)
               THEN /\ tf_clock' = current_time
                                     + SleepTime(response.reset_time, current_time)
                    /\ tf_attempt' = tf_attempt + 1
                    /\ tf_pc' = IF last THEN "returned" ELSE "loop"
                    /\ tf_result' = IF last THEN response ELSE tf_result
               ELSE IF RetryableStatus(response) /\ ~last
               THEN /\ tf_clock' = current_time + BackoffTime(tf_attempt)
                    /\ tf_attempt' = tf_attempt + 1
                    /\ UNCHANGED <<tf_pc, tf_result>>
               ELSE /\ tf_pc' = "returned"
                    /\ tf_result' = response
                    /\ tf_clock' = current_time
                    /\ UNCHANGED tf_attempt
    /\ UNCHANGED <<pg_kind, pg_N, pg_shape, page, all_data, pg_pc, pg_non200,
                   pg_upstream, gpVars>>
    /\ UNCHANGED <<faults, rlVars, mgVars, rsVars, whVars>>

----------------------------------------------------------------------------
(* Entities, the target organization and the encryption of secrets *)

\* secret_details['value'] = '[ENCRYPTED_SECRET_VALUE]'
SENTINEL == "[ENCRYPTED_SECRET_VALUE]"
\* value = "PLACEHOLDER_VALUE_SET_MANUALLY"
PLACEHOLDER == "PLACEHOLDER_VALUE_SET_MANUALLY"

Names == {"A", "B"}
Repos == {"r1", "r2"}

\* str.strip() on the values and tokens of the model.
Strip(v) ==
    CASE v = "  " -> ""
      [] v = " r1" -> "r1"
      [] v = " r2" -> "r2"
      [] OTHER -> v

\* The key under which the target holds an entity.  An organization-level
\* entry has repository ''.
OrgKey(name) == <<"organization", "", name>>
RepoKey(repo, name) == <<"repository", repo, name>>
Keys == {OrgKey(n) : n \in Names} \cup {RepoKey(r, n) : r \in Repos, n \in Names}
EntryKey(e) == <<e.scope, e.repository, e.name>>

Absent == [value |-> "<absent>", visibility |-> "", selected |-> <<>>]
Stored(value, visibility, selected) ==
    [value |-> value, visibility |-> visibility, selected |-> selected]

\* The id the target organization gives a repository; the source's ids differ.
TargetRepoId(name) == <<"target-id", name>>

\* The public key of a scope of the target, and encrypt_secret: a sealed box
\* only the holder of that scope's private key opens.
PublicKey(scope) ==
    [key_id |-> <<"key-id", scope>>,
     key |-> <<IF scope \in malformed_keys THEN "malformed" ELSE "key", scope>>]
\* base64.b64decode / public.PublicKey raise on a malformed key, and
\* encrypt_secret re-raises.
encrypt_secret(secret_value, public_key) ==
    IF public_key[1] = "malformed"
    THEN [kind |-> "exc", box |-> public_key, plain |-> ""]
    ELSE [kind |-> "ok", box |-> public_key, plain |-> secret_value]
\* The upstream opens the box with the private key of the key the request names.
Unseal(scope, encrypted_value, key_id) ==
    IF key_id = PublicKey(scope).key_id /\ encrypted_value.box = PublicKey(scope).key
    THEN encrypted_value.plain
    ELSE "<undecryptable>"

\* One request of a handler, as the ghost log keeps it.
QuotaAnswer(a) == a \in {"429", "403rl"}
LogEntry(req, scen, status) ==
    [req |-> req, status |-> status, hits |-> scen.j,
     first |-> IF scen.a = "ok" THEN "ok" ELSE IF QuotaAnswer(scen.a) THEN "quota" ELSE "other"]

\* A logged request for the public key of `scope`.
Scoped(entry, scope) ==
    [req |-> entry.req, status |-> entry.status, hits |-> entry.hits,
     first |-> entry.first, scope |-> scope]
\* A logged PUT of a secret of `scope`: the value that was sealed, the key it
\* was sealed with, the body sent, and the action the success line logs ("":
\* no success line).
PutEntry(entry, scope, value, public_key_info, payload, action) ==
    [req |-> entry.req, status |-> entry.status, hits |-> entry.hits,
     first |-> entry.first, scope |-> scope, value |-> value,
     sealed_with |-> public_key_info, payload |-> payload, action |-> action]

\* A logged request was answered 401, or 403 while quota was left.
AuthFailure(c) == c.status = 401 \/ (c.status = 403 /\ c.first # "quota")

\* _make_request as the handlers see it: the response status (the upstream's
\* own answer `truth` unless a fault is injected), or an exception.
\* applied: the upstream executed the request.
MakeRequest(method, scen, truth) ==
    LET out == SessionRequest(method, scen)
    IN IF out.kind = "exc"
       THEN [kind |-> "exc", status |-> -1, applied |-> FALSE]
       ELSE [kind |-> "resp",
             status |-> IF out.status = 0 THEN truth ELSE out.status,
             applied |-> out.status = 0]

OkScen == [a |-> "ok", j |-> 0]

\* The migrator's view of the world a handler runs in, and what it returns.
World(t, repos, mapping, oc, rc) ==
    [target |-> t, repos |-> repos, mapping |-> mapping, org_cache |-> oc, repo_cache |-> rc]
Result(ret, w, log, writes) == [ret |-> ret, w |-> w, log |-> log, writes |-> writes]

----------------------------------------------------------------------------
(* Repository mapping: build_target_repo_mapping, get_target_repository_ids *)

\* build_target_repo_mapping: get_organization_repositories lists the target
\* (one page: the model's target holds fewer than per_page repositories; a
\* page answered with a status other than 200 yields an empty list).
BuildTargetRepoMapping(w, scen) ==
    IF w.mapping # {}
    THEN [kind |-> "ok", w |-> w, log |-> <<>>]
    ELSE LET r == MakeRequest("GET", scen, 200)
         IN IF r.kind = "exc"
            THEN [kind |-> "exc", w |-> w, log |-> <<LogEntry("list", scen, -1)>>]
            ELSE [kind |-> "ok",
                  w |-> [w EXCEPT !.mapping = IF r.status = 200 THEN w.repos ELSE {}],
                  log |-> <<LogEntry("list", scen, r.status)>>]

\* A lookup that sends an id for every name, present in the target or not.
MapNames_KeepAll(repo_names, mapping) ==
    [i \in DOMAIN repo_names |-> TargetRepoId(repo_names[i])]

RECURSIVE MapNames(_, _)
\* target_ids of get_target_repository_ids: the ids of the names the mapping
\* holds, in the order of the names.
MapNames(repo_names, mapping) ==
    IF repo_names = <<>> THEN <<>>
    ELSE LET rest == MapNames(Tail(repo_names), mapping)
         IN IF Head(repo_names) \in mapping
            THEN <<TargetRepoId(Head(repo_names))>> \o rest
            ELSE rest

RECURSIVE ParseSelected(_)
\* [repo.strip() for repo in field.split(',') if repo.strip()]; the field is
\* kept as its comma-separated tokens, '' as no token.
ParseSelected(tokens) ==
    IF tokens = <<>> THEN <<>>
    ELSE IF Strip(Head(tokens)) = "" THEN ParseSelected(Tail(tokens))
         ELSE <<Strip(Head(tokens))>> \o ParseSelected(Tail(tokens))

\* A payload that stays 'selected' when none of the names is in the target.
ResolveVisibility_NoDowngrade(w, visibility, selected_repo_names, scen) ==
    [kind |-> "ok", w |-> w, log |-> <<>>, visibility |-> visibility, selected |-> <<>>]

\* The visibility part of a create/update payload of an organization entity:
\* visibility == 'selected' and selected_repo_names -> target ids, or 'private'
\* when none of the names is in the target.  selected = <<>> stands for a
\* payload without the selected_repository_ids field: the field is set only
\* to a non-empty list.
\* Returns [kind, w, log, visibility, selected].
ResolveVisibility(w, visibility, selected_repo_names, scen) ==
    IF visibility = "selected" /\ selected_repo_names # <<>>
    THEN LET b == BuildTargetRepoMapping(w, scen)
             ids == MapNames(selected_repo_names, b.w.mapping)
         IN [kind |-> b.kind, w |-> b.w, log |-> b.log,
             visibility |-> IF ids # <<>> THEN visibility ELSE "private",
             selected |-> ids]
    ELSE [kind |-> "ok", w |-> w, log |-> <<>>, visibility |-> visibility, selected |-> <<>>]

----------------------------------------------------------------------------
(* Secrets: existence probes, public keys, create_*_secret *)

\* The probe read the wrong way round: "present" on 404.
ProbeSaysExists_Inverted(status) == status = 404
\* check_organization_secret_exists / check_repository_secret_exists: True on
\* 200; False on 404 and on every other status.
ProbeSaysExists(status) == status = 200

\* A value check that knows the sentinel only.
NoRealValue_SentinelOnly(value) == value = SENTINEL
\* value == '[ENCRYPTED_SECRET_VALUE]' or not value.strip()
NoRealValue(value) == value = SENTINEL \/ Strip(value) = ""

\* A key fetch that asks the upstream on every use.
GetPublicKey_Uncached(scope, cache, scopeExists, scen) ==
    LET r == MakeRequest("GET", scen, IF scopeExists THEN 200 ELSE 404)
    IN [kind |-> IF r.kind = "exc" THEN "exc" ELSE "ok",
        have |-> r.kind # "exc" /\ r.status = 200,
        key |-> PublicKey(scope),
        cache |-> IF r.kind # "exc" /\ r.status = 200 THEN cache \cup {scope} ELSE cache,
        log |-> <<Scoped(LogEntry("key", scen, r.status), scope)>>]

\* get_organization_public_key / get_repository_public_key for `scope` (the
\* organization, or org/repo): [kind, have, key, cache, log]; have = FALSE: None.
GetPublicKey(scope, cache, scopeExists, scen) ==
    IF scope \in cache
    THEN [kind |-> "ok", have |-> TRUE, key |-> PublicKey(scope), cache |-> cache,
          log |-> <<>>]
    ELSE LET r == MakeRequest("GET", scen, IF scopeExists THEN 200 ELSE 404)
         IN IF r.kind = "exc"
            THEN [kind |-> "exc", have |-> FALSE, key |-> PublicKey(scope),
                  cache |-> cache, log |-> <<Scoped(LogEntry("key", scen, -1), scope)>>]
            ELSE IF r.status # 200
            THEN [kind |-> "ok", have |-> FALSE, key |-> PublicKey(scope),
                  cache |-> cache,
                  log |-> <<Scoped(LogEntry("key", scen, r.status), scope)>>]
            ELSE [kind |-> "ok", have |-> TRUE, key |-> PublicKey(scope),
                  cache |-> cache \cup {scope},
                  log |-> <<Scoped(LogEntry("key", scen, 200), scope)>>]

\* The upstream's answer to PUT .../actions/secrets/{name}: 201 when it
\* creates the secret, 204 when it replaces an existing one, 404 when the
\* repository of a repository secret does not exist.
PutTruth(w, key) ==
    IF key[1] = "repository" /\ key[2] \notin w.repos THEN 404
    ELSE IF w.target[key] = Absent THEN 201 ELSE 204

\* response.status_code in [201, 204]
SecretPutSucceeded(status) == status \in {201, 204}

\* A body that always names the organization's key.
SecretPayload_OrgKeyId(encrypted_value, public_key_info) ==
    [encrypted_value |-> encrypted_value, key_id |-> PublicKey("org").key_id]

\* data = {'encrypted_value': encrypted_value, 'key_id': public_key_info['key_id']}
SecretPayload(encrypted_value, public_key_info) ==
    [encrypted_value |-> encrypted_value, key_id |-> public_key_info.key_id]

\* action = "Created/Updated"; if value == "PLACEHOLDER_VALUE_SET_MANUALLY":
\* action += " [PLACEHOLDER]"
SuccessAction(value) ==
    IF value = PLACEHOLDER THEN "Created/Updated [PLACEHOLDER]" ELSE "Created/Updated"

\* create_organization_secret(org, name, value, visibility, selected_repo_names,
\* session, create_placeholder).  sc: the upstream's scenario for the probe,
\* the key fetch, the repository listing and the PUT.
create_organization_secret(w, name, value, visibility, selected_repo_names, cp, sc) ==
    LET key == OrgKey(name)
        probe == MakeRequest("GET", sc.probe, IF w.target[key] = Absent THEN 404 ELSE 200)
        plog == <<LogEntry("probe", sc.probe, probe.status)>>
    IN IF probe.kind = "exc" THEN Result("raise", w, plog, 0)
       ELSE IF ProbeSaysExists(probe.status) THEN Result("None", w, plog, 0)
       ELSE IF NoRealValue(value) /\ ~cp THEN Result("False", w, plog, 0)
       ELSE
       LET value2 == IF NoRealValue(value) THEN PLACEHOLDER ELSE value
           k == GetPublicKey("org", w.org_cache, TRUE, sc.key)
           w1 == [w EXCEPT !.org_cache = k.cache]
           klog == plog \o k.log
       IN IF k.kind = "exc" THEN Result("raise", w1, klog, 0)
          ELSE IF ~k.have THEN Result("False", w1, klog, 0)
          ELSE
          LET encrypted_value == encrypt_secret(value2, k.key.key)
              v == ResolveVisibility(w1, visibility, selected_repo_names, sc.list)
              vlog == klog \o v.log
          IN IF encrypted_value.kind = "exc" THEN Result("False", w1, klog, 0)
             ELSE IF v.kind = "exc" THEN Result("raise", v.w, vlog, 0)
             ELSE
             LET put == MakeRequest("PUT", sc.put, PutTruth(v.w, key))
                 payload == SecretPayload(encrypted_value, k.key)
                 stored == Stored(Unseal("org", payload.encrypted_value, payload.key_id),
                                  v.visibility, v.selected)
                 w2 == IF put.applied
                       THEN [v.w EXCEPT !.target = [@ EXCEPT ![key] = stored]]
                       ELSE v.w
                 log == vlog \o
                        <<PutEntry(LogEntry("put", sc.put, put.status), "org", value2,
                                   k.key, payload,
                                   IF put.kind # "exc" /\ SecretPutSucceeded(put.status)
                                   THEN SuccessAction(value2) ELSE "")>>
             IN IF put.kind = "exc" THEN Result("raise", v.w, log, 0)
                ELSE IF SecretPutSucceeded(put.status)
                THEN Result("True", w2, log, IF put.applied THEN 1 ELSE 0)
                ELSE Result("False", w2, log, 0)

\* create_repository_secret(org, repo, name, value, session, create_placeholder)
create_repository_secret(w, repo, name, value, cp, sc) ==
    LET key == RepoKey(repo, name)
        repoExists == repo \in w.repos
        probe == MakeRequest("GET", sc.probe,
                             IF repoExists /\ w.target[key] # Absent THEN 200 ELSE 404)
        plog == <<LogEntry("probe", sc.probe, probe.status)>>
    IN IF probe.kind = "exc" THEN Result("raise", w, plog, 0)
       ELSE IF ProbeSaysExists(probe.status) THEN Result("None", w, plog, 0)
       ELSE IF NoRealValue(value) /\ ~cp THEN Result("False", w, plog, 0)
       ELSE
       LET value2 == IF NoRealValue(value) THEN PLACEHOLDER ELSE value
           k == GetPublicKey(repo, w.repo_cache, repoExists, sc.key)
           w1 == [w EXCEPT !.repo_cache = k.cache]
           klog == plog \o k.log
       IN IF k.kind = "exc" THEN Result("raise", w1, klog, 0)
          ELSE IF ~k.have THEN Result("False", w1, klog, 0)
          ELSE
          LET encrypted_value == encrypt_secret(value2, k.key.key)
              put == MakeRequest("PUT", sc.put, PutTruth(w1, key))
              payload == SecretPayload(encrypted_value, k.key)
              written == put.applied /\ put.status \in {201, 204}
              stored == Stored(Unseal(repo, payload.encrypted_value, payload.key_id),
                               "", <<>>)
              w2 == IF written
                    THEN [w1 EXCEPT !.target = [@ EXCEPT ![key] = stored]]
                    ELSE w1
              log == klog \o
                     <<PutEntry(LogEntry("put", sc.put, put.status), repo, value2,
                                k.key, payload,
                                IF put.kind # "exc" /\ SecretPutSucceeded(put.status)
                                THEN SuccessAction(value2) ELSE "")>>
          IN IF encrypted_value.kind = "exc" THEN Result("False", w1, klog, 0)
             ELSE IF put.kind = "exc" THEN Result("raise", w1, log, 0)
             ELSE IF SecretPutSucceeded(put.status)
             THEN Result("True", w2, log, IF written THEN 1 ELSE 0)
             ELSE Result("False", w2, log, 0)

----------------------------------------------------------------------------
(* Variables: create_*_variable, update_*_variable *)

\* The skip-if-present discipline: a 409 leaves the variable alone.
CreateVariableBranch_SkipOnConflict(status) ==
    IF status = 201 THEN "True" ELSE IF status = 409 THEN "None" ELSE "False"
\* The branch create_*_variable takes on the POST's status: 201 -> True,
\* 409 -> update_*_variable, anything else (404 included) -> False.
CreateVariableBranch(status) ==
    IF status = 201 THEN "True" ELSE IF status = 409 THEN "update" ELSE "False"

\* response.status_code == 204
VariableUpdateSucceeded(status) == status = 204

\* The upstream's answer to POST .../actions/variables: 201 when it creates
\* the variable, 409 when the name exists, 404 when the repository of a
\* repository variable does not exist.
PostTruth(w, key) ==
    IF key[1] = "repository" /\ key[2] \notin w.repos THEN 404
    ELSE IF w.target[key] = Absent THEN 201 ELSE 409

\* The upstream's answer to PATCH .../actions/variables/{name}.
PatchTruth(w, key) ==
    IF key[1] = "repository" /\ key[2] \notin w.repos THEN 404
    ELSE IF w.target[key] = Absent THEN 404 ELSE 204

\* update_organization_variable(org, name, value, visibility, selected_repo_names, session)
update_organization_variable(w, name, value, visibility, selected_repo_names, sc, log0) ==
    LET key == OrgKey(name)
        v == ResolveVisibility(w, visibility, selected_repo_names, sc.list2)
        vlog == log0 \o v.log
    IN IF v.kind = "exc" THEN Result("raise", v.w, vlog, 0)
       ELSE
       LET patch == MakeRequest("PATCH", sc.patch, PatchTruth(v.w, key))
           written == patch.applied /\ patch.status = 204
           w2 == IF written
                 THEN [v.w EXCEPT !.target =
                          [@ EXCEPT ![key] = Stored(value, v.visibility, v.selected)]]
                 ELSE v.w
           log == vlog \o <<LogEntry("patch", sc.patch, patch.status)>>
       IN IF patch.kind = "exc" THEN Result("raise", v.w, log, 0)
          ELSE IF VariableUpdateSucceeded(patch.status)
          THEN Result("True", w2, log, IF written THEN 1 ELSE 0)
          ELSE Result("False", w2, log, 0)

\* create_organization_variable(org, name, value, visibility, selected_repo_names, session)
create_organization_variable(w, name, value, visibility, selected_repo_names, sc) ==
    LET key == OrgKey(name)
        v == ResolveVisibility(w, visibility, selected_repo_names, sc.list)
    IN IF v.kind = "exc" THEN Result("raise", v.w, v.log, 0)
       ELSE
       LET post == MakeRequest("POST", sc.post, PostTruth(v.w, key))
           created == post.applied /\ post.status = 201
           w2 == IF created
                 THEN [v.w EXCEPT !.target =
                          [@ EXCEPT ![key] = Stored(value, v.visibility, v.selected)]]
                 ELSE v.w
           log == v.log \o <<LogEntry("post", sc.post, post.status)>>
           branch == CreateVariableBranch(post.status)
       IN IF post.kind = "exc" THEN Result("raise", v.w, log, 0)
          ELSE IF branch = "update"
          THEN update_organization_variable(w2, name, value, visibility,
                                            selected_repo_names, sc, log)
          ELSE Result(branch, w2, log, IF created THEN 1 ELSE 0)

\* update_repository_variable(org, repo, name, value, session)
update_repository_variable(w, repo, name, value, sc, log0) ==
    LET key == RepoKey(repo, name)
        patch == MakeRequest("PATCH", sc.patch, PatchTruth(w, key))
        written == patch.applied /\ patch.status = 204
        w2 == IF written
              THEN [w EXCEPT !.target = [@ EXCEPT ![key] = Stored(value, "", <<>>)]]
              ELSE w
        log == log0 \o <<LogEntry("patch", sc.patch, patch.status)>>
    IN IF patch.kind = "exc" THEN Result("raise", w, log, 0)
       ELSE IF VariableUpdateSucceeded(patch.status)
       THEN Result("True", w2, log, IF written THEN 1 ELSE 0)
       ELSE Result("False", w2, log, 0)

\* create_repository_variable(org, repo, name, value, session)
create_repository_variable(w, repo, name, value, sc) ==
    LET key == RepoKey(repo, name)
        post == MakeRequest("POST", sc.post, PostTruth(w, key))
        created == post.applied /\ post.status = 201
        w2 == IF created
              THEN [w EXCEPT !.target = [@ EXCEPT ![key] = Stored(value, "", <<>>)]]
              ELSE w
        log == <<LogEntry("post", sc.post, post.status)>>
        branch == CreateVariableBranch(post.status)
    IN IF post.kind = "exc" THEN Result("raise", w, log, 0)
       ELSE IF branch = "update"
       THEN update_repository_variable(w2, repo, name, value, sc, log)
       ELSE Result(branch, w2, log, IF created THEN 1 ELSE 0)

----------------------------------------------------------------------------
(* The migration loops: migrate_secrets, migrate_variables *)

Disposition_RaisedUncounted(ret) ==
    CASE ret = "True" -> "success"
      [] ret = "None" -> "skipped"
      [] ret = "False" -> "error"
      [] OTHER -> "uncounted"

\* if success: success_count += 1 / elif success is False: error_count += 1 /
\* else: skipped_count += 1; an exception is caught and counted as an error.
Disposition(ret) ==
    CASE ret = "True" -> "success"
      [] ret = "None" -> "skipped"
      [] OTHER -> "error"

\* The body of the for loop for one entry: the dispatch on the scope.
HandleSecret(w, e, cp, sc) ==
    IF e.scope = "organization"
    THEN create_organization_secret(w, e.name, e.value, e.visibility,
                                    ParseSelected(e.selected_repositories), cp, sc)
    ELSE IF e.scope = "repository"
    THEN create_repository_secret(w, e.repository, e.name, e.value, cp, sc)
    ELSE Result("False", w, <<>>, 0)

HandleVariable(w, e, sc) ==
    IF e.scope = "organization"
    THEN create_organization_variable(w, e.name, e.value, e.visibility,
                                      ParseSelected(e.selected_repositories), sc)
    ELSE IF e.scope = "repository"
    THEN create_repository_variable(w, e.repository, e.name, e.value, sc)
    ELSE Result("False", w, <<>>, 0)

\* The body of the try of the for loop: the handler of the entry's scope.
HandleEntry(kind, w, e, cp, sc) ==
    IF kind = "secrets" THEN HandleSecret(w, e, cp, sc) ELSE HandleVariable(w, e, sc)

\* The requests a handler may issue, and the upstream's scenario for each.
SlotsOf(kind) ==
    IF kind = "secrets" THEN {"probe", "key", "list", "put"}
    ELSE {"list", "post", "list2", "patch"}
AllSlots == {"probe", "key", "list", "put", "post", "list2", "patch"}
AllOk == [sl \in AllSlots |-> OkScen]
FaultySlots(sc) == {sl \in AllSlots : sc[sl] # OkScen}

RECURSIVE Assignments(_, _)
\* The scenario assignments with at most `budget` injected faults.
Assignments(slots, budget) ==
    IF budget <= 0 THEN {AllOk}
    ELSE LET prev == Assignments(slots, budget - 1)
         IN prev \cup {[a EXCEPT ![sl] = scen] :
                          a \in prev, sl \in slots, scen \in Scenarios \ {OkScen}}

WriteRequests(log) ==
    Cardinality({i \in DOMAIN log : log[i].req \in {"put", "post", "patch"}})

Entry(scope, repository, name, value, visibility, selected_repositories) ==
    [scope |-> scope, repository |-> repository, name |-> name, value |-> value,
     visibility |-> visibility, selected_repositories |-> selected_repositories]

\* The rows the secrets migrator is run on (the columns of the export).
SecretEntries ==
    { Entry("organization", "", "A", SENTINEL, "all", <<>>),
      Entry("organization", "", "B", "real", "selected", <<"r1", " r2">>),
      Entry("repository", "r1", "A", "  ", "", <<>>),
      Entry("repository", "r2", "A", "real", "", <<>>),
      Entry("environment", "", "A", "real", "", <<>>) }

\* The rows the variables migrator is run on.
VariableEntries ==
    { Entry("organization", "", "A", "v1", "all", <<>>),
      Entry("organization", "", "B", "v2", "selected", <<"r1", " r2">>),
      Entry("repository", "r1", "A", "v1", "", <<>>),
      Entry("repository", "r2", "A", "v2", "", <<>>),
      Entry("environment", "", "A", "v1", "", <<>>) }

SeqsUpTo(S, n) == UNION {[1..k -> S] : k \in 0..n}

\* The HTTP method of a logged request of the handlers.
MethodOf(req) ==
    CASE req = "put" -> "PUT"
      [] req = "post" -> "POST"
      [] req = "patch" -> "PATCH"
      [] OTHER -> "GET"

\* A request as the process log keeps it: the session it was sent with, the
\* organization its URL names, and its method.
ProcessRequest(session, org, method) == [session |-> session, org |-> org, method |-> method]

\* The handlers send every request with self.target_session to a URL of
\* self.target_org.
TargetRequests(log) ==
    {ProcessRequest("target", "target", MethodOf(log[i].req)) : i \in DOMAIN log}

ListRequests(log) == Cardinality({i \in DOMAIN log : log[i].req = "list"})

\* An entity the target holds before the migration.
Old(key) == Stored("old", IF key[1] = "organization" THEN "all" ELSE "", <<>>)

\* The migrator after __init__ and the target it faces; `malformed`: the sets
\* of scopes whose public key the target may serve malformed.
MgInitWith(kind, entries, malformed) ==
    /\ migrator = kind
    /\ malformed_keys \in malformed
    /\ data \in SeqsUpTo(entries, MaxEntries)
    /\ create_placeholder \in (IF kind = "secrets" THEN BOOLEAN ELSE {TRUE})
    /\ target_repos \in SUBSET Repos
    /\ \E P \in SUBSET Keys :
         /\ Cardinality(P) <= MaxPreExisting
         /\ \A k \in P : k[1] = "repository" => k[2] \in target_repos
         /\ target = [k \in Keys |-> IF k \in P THEN Old(k) ELSE Absent]
    /\ target_repo_mapping = {}
    /\ org_public_key_cache = {}
    /\ repo_public_key_cache = {}
    /\ run = 1
    /\ idx = 1
    /\ success_count = 0 /\ error_count = 0 /\ skipped_count = 0
    /\ returned = [r \in 1..2 |-> <<>>]
    /\ outcome = [r \in 1..2 |-> <<>>]
    /\ last_call = <<>>
    /\ put_count = [r \in 1..2 |-> 0]
    /\ start_target = [r \in 1..2 |-> target]
    /\ overwrote = FALSE
    /\ auth_failed = FALSE
    /\ rc_pc = "direct"
    /\ source_answer = 200
    /\ source_entries = <<>>
    /\ rc_requests = {}
    /\ list_count = 0

MgInit(kind, entries) == MgInitWith(kind, entries, {{}})

MgIdle ==
    /\ migrator = "none" /\ data = <<>> /\ create_placeholder = TRUE
    /\ target_repos = {} /\ target = [k \in Keys |-> Absent]
    /\ target_repo_mapping = {} /\ org_public_key_cache = {}
    /\ repo_public_key_cache = {} /\ run = 1 /\ idx = 1
    /\ success_count = 0 /\ error_count = 0 /\ skipped_count = 0
    /\ returned = [r \in 1..2 |-> <<>>] /\ outcome = [r \in 1..2 |-> <<>>]
    /\ last_call = <<>> /\ put_count = [r \in 1..2 |-> 0]
    /\ start_target = [r \in 1..2 |-> target] /\ overwrote = FALSE
    /\ auth_failed = FALSE
    /\ rc_pc = "idle" /\ source_answer = 200 /\ source_entries = <<>>
    /\ rc_requests = {} /\ list_count = 0 /\ malformed_keys = {}

\* One iteration of the for loop of migrate_secrets / migrate_variables.
MigrateEntry ==
    /\ migrator \in {"secrets", "variables"}
    /\ rc_pc \in {"direct", "migrate"}
    /\ returned[run] = <<>>
    /\ idx <= Len(data)
    /\ \E sc \in Assignments(SlotsOf(migrator), MaxFaults - faults) :
         \E r \in {HandleEntry(migrator, World(target, target_repos,
                                  target_repo_mapping, org_public_key_cache,
                                  repo_public_key_cache),
                                data[idx], create_placeholder, sc)} :
         LET d == Disposition(r.ret)
             used == {r.log[i].req : i \in DOMAIN r.log}
         IN /\ FaultySlots(sc) \subseteq used
            /\ faults' = faults + Cardinality(FaultySlots(sc))
            /\ target' = r.w.target
            /\ target_repo_mapping' = r.w.mapping
            /\ org_public_key_cache' = r.w.org_cache
            /\ repo_public_key_cache' = r.w.repo_cache
            /\ success_count' = success_count + (IF d = "success" THEN 1 ELSE 0)
            /\ error_count' = error_count + (IF d = "error" THEN 1 ELSE 0)
            /\ skipped_count' = skipped_count + (IF d = "skipped" THEN 1 ELSE 0)
            /\ outcome' = [outcome EXCEPT ![run] = Append(@, d)]
            /\ last_call' = r.log
            /\ put_count' = [put_count EXCEPT ![run] = @ + WriteRequests(r.log)]
            /\ overwrote' = (overwrote \/ \E k \in Keys :
                                target[k] # Absent /\ r.w.target[k] # target[k])
            /\ rc_requests' = rc_requests \cup TargetRequests(r.log)
            /\ list_count' = list_count + ListRequests(r.log)
    /\ auth_failed' = (auth_failed \/ \E i \in DOMAIN last_call :
                                        AuthFailure(last_call[i]))
    /\ idx' = idx + 1
    /\ UNCHANGED <<migrator, data, create_placeholder, malformed_keys,
                   target_repos, run, returned,
                   start_target, rc_pc, source_answer, source_entries>>
    /\ UNCHANGED <<pgVars, rlVars, rsVars, whVars>>

\* The end of migrate_*: return success_count, error_count, skipped_count.
MigrateReturn ==
    /\ migrator \in {"secrets", "variables"}
    /\ rc_pc \in {"direct", "migrate"}
    /\ returned[run] = <<>>
    /\ idx > Len(data)
    /\ returned' = [returned EXCEPT ![run] = <<success_count, error_count, skipped_count>>]
    /\ UNCHANGED <<migrator, data, create_placeholder, malformed_keys,
                   target, target_repos,
                   target_repo_mapping, org_public_key_cache, repo_public_key_cache,
                   run, idx, success_count, error_count, skipped_count, outcome,
                   last_call, put_count, start_target, overwrote, auth_failed,
                   rc_pc, source_answer, source_entries, rc_requests, list_count>>
    /\ UNCHANGED <<pgVars, rlVars, rsVars, whVars, faults>>

\* The same list is migrated again: by the same migrator object, or by a new
\* process (__init__ empties the caches).
MigrateAgain ==
    /\ migrator \in {"secrets", "variables"}
    /\ rc_pc = "direct"
    /\ run = 1
    /\ returned[1] # <<>>
    /\ run' = 2
    /\ idx' = 1
    /\ success_count' = 0 /\ error_count' = 0 /\ skipped_count' = 0
    /\ start_target' = [start_target EXCEPT ![2] = target]
    /\ \E fresh \in BOOLEAN :
         IF fresh
         THEN /\ target_repo_mapping' = {}
              /\ org_public_key_cache' = {}
              /\ repo_public_key_cache' = {}
              /\ rc_requests' = {}
              /\ list_count' = 0
         ELSE UNCHANGED <<target_repo_mapping, org_public_key_cache,
                          repo_public_key_cache, rc_requests, list_count>>
    /\ last_call' = <<>>
    /\ auth_failed' = FALSE
    /\ UNCHANGED <<migrator, data, create_placeholder, malformed_keys,
                   target, target_repos, returned,
                   outcome, put_count, overwrote, rc_pc, source_answer,
                   source_entries>>
    /\ UNCHANGED <<pgVars, rlVars, rsVars, whVars, faults>>

----------------------------------------------------------------------------
(* The whole run: run_complete_migration (secrets), run_migration           *)
(* (variables): fetch_all_*, then migrate_* over what was fetched           *)

\* What the source organization answers to the requests of fetch_all_*: 200,
\* 401 (bad credential), 404 (organization not resolvable); 0: the request
\* raises.
SourceAnswers == {200, 401, 404, 0}

\* fetch_all_* sends its requests with self.source_session to URLs of
\* self.source_org, each through _make_request(session, 'GET', url).
SourceRequest == ProcessRequest("source", "source", "GET")

\* The upstream's handling of the requests addressed to the source
\* organization: a request that is not a GET changes what it holds.
SourceAfter(entries, requests) ==
    IF \E r \in requests : r.org = "source" /\ r.method # "GET"
    THEN <<>>
    ELSE entries

\* The row fetch_all_* builds for an entity: a secret's value is not readable.
Fetched(kind, e) == [e EXCEPT !.value = IF kind = "secrets" THEN SENTINEL ELSE @]

\* fetch_all_secrets / fetch_all_variables: the listings return [] on every
\* status other than 200, and a RequestException passes through.
fetch_all(kind, answer, entries) ==
    IF answer = 0 THEN [kind |-> "exc", data |-> <<>>]
    ELSE IF answer # 200 THEN [kind |-> "ok", data |-> <<>>]
    ELSE [kind |-> "ok", data |-> [i \in DOMAIN entries |-> Fetched(kind, entries[i])]]

RcInit(kind, entries) ==
    /\ migrator = kind
    /\ malformed_keys = {}
    /\ data = <<>>
    /\ create_placeholder = TRUE
    /\ target_repos \in SUBSET Repos
    /\ \E P \in SUBSET Keys :
         /\ Cardinality(P) <= MaxPreExisting
         /\ \A k \in P : k[1] = "repository" => k[2] \in target_repos
         /\ target = [k \in Keys |-> IF k \in P THEN Old(k) ELSE Absent]
    /\ target_repo_mapping = {}
    /\ org_public_key_cache = {}
    /\ repo_public_key_cache = {}
    /\ run = 1
    /\ idx = 1
    /\ success_count = 0 /\ error_count = 0 /\ skipped_count = 0
    /\ returned = [r \in 1..2 |-> <<>>]
    /\ outcome = [r \in 1..2 |-> <<>>]
    /\ last_call = <<>>
    /\ put_count = [r \in 1..2 |-> 0]
    /\ start_target = [r \in 1..2 |-> target]
    /\ overwrote = FALSE
    /\ auth_failed = FALSE
    /\ rc_pc = "fetch"
    /\ source_answer \in SourceAnswers
    /\ source_entries \in
          SeqsUpTo({e \in entries : e.scope \in {"organization", "repository"}},
                   MaxEntries)
    /\ rc_requests = {}
    /\ list_count = 0

\* run_complete_migration / run_migration up to the call of migrate_*.
RcFetchAll ==
    /\ migrator \in {"secrets", "variables"}
    /\ rc_pc = "fetch"
    /\ LET f == fetch_all(migrator, source_answer, source_entries)
       IN /\ data' = f.data
          /\ rc_pc' = IF f.kind = "exc" THEN "raised"
                      ELSE IF f.data = <<>> THEN "returned"
                      ELSE "migrate"
    /\ rc_requests' = rc_requests \cup {SourceRequest}
    /\ source_entries' = SourceAfter(source_entries, {SourceRequest})
    /\ UNCHANGED <<migrator, create_placeholder, malformed_keys,
                   target, target_repos,
                   target_repo_mapping, org_public_key_cache, repo_public_key_cache,
                   run, idx, success_count, error_count, skipped_count, returned,
                   outcome, last_call, put_count, start_target, overwrote,
                   auth_failed, source_answer, list_count>>
    /\ UNCHANGED <<pgVars, rlVars, rsVars, whVars, faults>>

\* migrate_* has returned: the counts are logged and the run returns.
RcFinish ==
    /\ rc_pc = "migrate"
    /\ returned[1] # <<>>
    /\ rc_pc' = "returned"
    /\ UNCHANGED <<migrator, data, create_placeholder, malformed_keys,
                   target, target_repos,
                   target_repo_mapping, org_public_key_cache, repo_public_key_cache,
                   run, idx, success_count, error_count, skipped_count, returned,
                   outcome, last_call, put_count, start_target, overwrote,
                   auth_failed, source_answer, source_entries, rc_requests,
                   list_count>>
    /\ UNCHANGED <<pgVars, rlVars, rsVars, whVars, faults>>

----------------------------------------------------------------------------
(* Rulesets import: make_api_request, check_existing_rulesets and           *)
(* import_rulesets_for_repo                                                 *)

\* The listing GET carries only include_parents: neither per_page nor page,
\* so the upstream answers with its first page, of its default size.
default_page_size == 30

\* What make_api_request returns when it returns no response.
None == -1

\* Statuses an injected upstream fault answers with (0: the transport failed).
ApiFaults == {0, 403, 500}
ApiInjections(f) == IF f < MaxFaults THEN {200} \cup ApiFaults ELSE {200}
ApiFaultCost(inj) == IF inj = 200 THEN 0 ELSE 1

\* make_api_request: raise_for_status turns every status from 400 up into an
\* HTTPError, which is logged; so is a transport failure; both return None.
make_api_request(status) == IF status = 0 \/ status >= 400 THEN None ELSE status

Range(s) == {s[i] : i \in DOMAIN s}

\* The upstream's answer to the listing GET: the first page of the rulesets.
ListedRulesets(t) ==
    SubSeq(t, 1, IF Len(t) < default_page_size THEN Len(t) ELSE default_page_size)

\* check_existing_rulesets: {} without a response, else name -> id of the
\* listed rulesets (a later ruleset of the same name replaces an earlier one).
check_existing_rulesets(t, inj) ==
    IF make_api_request(inj) = None
    THEN [n \in {} |-> 0]
    ELSE LET listed == ListedRulesets(t)
         IN [n \in Range(listed) |->
                CHOOSE i \in DOMAIN listed :
                    /\ listed[i] = n
                    /\ \A k \in DOMAIN listed : listed[k] = n => k <= i]

\* The upstream's handling of POST .../rulesets.
PostRuleset(t, unique, name, inj) ==
    IF inj # 200 THEN [status |-> inj, target |-> t]
    ELSE IF unique /\ name \in Range(t) THEN [status |-> 422, target |-> t]
    ELSE [status |-> 201, target |-> Append(t, name)]

\* response and response.status_code == 201
MigrationStatus(response) ==
    IF response # None /\ response = 201 THEN "Success" ELSE "Failed"

\* ---- bypass actors ----

\* The name of a ruleset whose exported object has no 'name' (or a null one).
NoName == 0

\* An element of a ruleset's bypass_actors.
Actor(actor_type, actor_id, bypass_mode) ==
    [actor_type |-> actor_type, actor_id |-> actor_id, bypass_mode |-> bypass_mode]

\* The teams of the two organizations: the source's by id, the target's by
\* slug.  A team of one slug has different ids in the two organizations.
SourceTeamSlug(actor_id) == IF actor_id = 11 THEN "dev" ELSE "ops"
TargetTeamId(slug) == IF slug = "dev" THEN 21 ELSE 22

\* What get_bypass_actor_details returns when it returns None.
NoDetails == [kind |-> "none", id |-> None, slug |-> ""]

\* get_bypass_actor_details; status is the answer to GET /teams/{actor_id}.
get_bypass_actor_details(actor_id, actor_type, status) ==
    IF actor_type = "Team"
    THEN IF make_api_request(status) # None
         THEN [kind |-> "team", id |-> actor_id, slug |-> SourceTeamSlug(actor_id)]
         ELSE NoDetails
    ELSE IF actor_type = "User"
    THEN [kind |-> "user_by_id", id |-> actor_id, slug |-> ""]
    ELSE IF actor_type = "RepositoryRole"
    THEN [kind |-> "repository_role", id |-> actor_id, slug |-> ""]
    ELSE NoDetails

enrich_bypass_actors_with_details(bypass_actors, status) ==
    [i \in DOMAIN bypass_actors |->
        [original_actor_id |-> bypass_actors[i].actor_id,
         actor_type |-> bypass_actors[i].actor_type,
         bypass_mode |-> bypass_actors[i].bypass_mode,
         details |-> get_bypass_actor_details(bypass_actors[i].actor_id,
                                              bypass_actors[i].actor_type, status)]]

\* The bypass actor fields export_rulesets_for_repo stores for one ruleset
\* (an absent enriched_bypass_actors reads as the empty list on import).
ExportedActors(bypass_actors, ENRICH_BYPASS_ACTORS, status) ==
    [bypass_actors |-> bypass_actors,
     enriched_bypass_actors |->
        IF ENRICH_BYPASS_ACTORS /\ bypass_actors # <<>>
        THEN enrich_bypass_actors_with_details(bypass_actors, status)
        ELSE <<>>]

\* A request as the upstream sees it.
Request(method, endpoint, key) ==
    [method |-> method, endpoint |-> endpoint, key |-> key]

\* An entry of the request log: the request and the type of the bypass actor
\* it was sent for ("" for the listing and the create request).
Sent(request, actor_type) == [request |-> request, actor_type |-> actor_type]

\* The request find_existing_team_in_target sends.
TeamLookupRequest_Creating(team_slug) == Request("POST", "teams", team_slug)

TeamLookupRequest(team_slug) == Request("GET", "teams", team_slug)

\* The upstream's handling of a request to /orgs/{org}/teams[/{slug}].
TeamsUpstream(teams, req, inj) ==
    IF inj # 200 THEN [status |-> inj, teams |-> teams, id |-> None]
    ELSE IF req.method = "POST"
    THEN [status |-> 201, teams |-> teams \cup {req.key}, id |-> TargetTeamId(req.key)]
    ELSE IF req.key \in teams
    THEN [status |-> 200, teams |-> teams, id |-> TargetTeamId(req.key)]
    ELSE [status |-> 404, teams |-> teams, id |-> None]

find_existing_team_in_target(team_details, teams, inj) ==
    IF team_details.slug = ""
    THEN [id |-> None, requests |-> {}, teams |-> teams, answers |-> {}]
    ELSE LET req == TeamLookupRequest(team_details.slug)
             up == TeamsUpstream(teams, req, inj)
         IN [id |-> IF make_api_request(up.status) # None THEN up.id ELSE None,
             requests |-> {req},
             teams |-> up.teams,
             answers |-> {up.status}]

find_user_in_target(user_details) ==
    IF user_details.id = None \/ user_details.id = 0 THEN None ELSE user_details.id

\* target_actor_id of resolve_bypass_actors_for_target; found is the result
\* of the team lookup.
TargetActorId_RolesLookedUp(actor_type, details, original_id, found) ==
    IF actor_type \in {"Team", "RepositoryRole"} THEN found
    ELSE IF actor_type = "User" THEN find_user_in_target(details)
    ELSE None

TargetActorId(actor_type, details, original_id, found) ==
    IF actor_type = "Team" THEN found
    ELSE IF actor_type = "User" THEN find_user_in_target(details)
    ELSE IF actor_type = "RepositoryRole" THEN original_id
    ELSE None

\* The for loop of resolve_bypass_actors_for_target from its i-th actor on;
\* injs[i] is what the upstream is made to answer to the i-th actor's lookup.
RECURSIVE ResolveFrom(_, _, _, _)
ResolveFrom(enriched, i, injs, acc) ==
    IF i > Len(enriched) THEN acc
    ELSE LET e == enriched[i]
         IN IF e.details = NoDetails
            THEN ResolveFrom(enriched, i + 1, injs, acc)
            ELSE LET look == IF e.actor_type = "Team"
                             THEN find_existing_team_in_target(e.details, acc.teams,
                                                               injs[i])
                             ELSE [id |-> None, requests |-> {}, teams |-> acc.teams,
                                   answers |-> {}]
                     target_actor_id == TargetActorId(e.actor_type, e.details,
                                                      e.original_actor_id, look.id)
                 IN ResolveFrom(enriched, i + 1, injs,
                      [resolved |->
                          IF target_actor_id # None /\ target_actor_id # 0
                          THEN Append(acc.resolved,
                                      Actor(e.actor_type, target_actor_id,
                                            e.bypass_mode))
                          ELSE acc.resolved,
                       requests |-> acc.requests \cup
                                    {Sent(r, e.actor_type) : r \in look.requests},
                       teams |-> look.teams,
                       found |-> acc.found \cup
                                 (IF look.id # None THEN {look.id} ELSE {}),
                       answers |-> acc.answers \cup
                                   {[slot |-> i, status |-> a] : a \in look.answers}])

NothingResolved(teams) ==
    [resolved |-> <<>>, requests |-> {}, teams |-> teams, found |-> {},
     answers |-> {}]

resolve_bypass_actors_for_target(enriched_bypass_actors, teams, injs) ==
    ResolveFrom(enriched_bypass_actors, 1, injs, NothingResolved(teams))

\* The for loop of sanitize_bypass_actors keeps every actor but a Team.
SanitizeKeeps(actor) == actor.actor_type # "Team"

sanitize_bypass_actors(bypass_actors, remove_all, sanitize) ==
    IF bypass_actors = <<>> THEN <<>>
    ELSE IF remove_all THEN <<>>
    ELSE IF ~sanitize THEN bypass_actors
    ELSE SelectSeq(bypass_actors, SanitizeKeeps)

\* resolved_bypass_actors of import_rulesets_for_repo: the enriched actors
\* are preferred, the plain ones are the fallback.
ResolvedBypassActors(ruleset, teams, injs, remove_all, sanitize) ==
    IF ruleset.enriched_bypass_actors # <<>>
    THEN resolve_bypass_actors_for_target(ruleset.enriched_bypass_actors, teams, injs)
    ELSE IF ruleset.bypass_actors # <<>>
    THEN [NothingResolved(teams) EXCEPT
            !.resolved = sanitize_bypass_actors(ruleset.bypass_actors,
                                                remove_all, sanitize)]
    ELSE NothingResolved(teams)

\* The requests of one iteration of the import: one lookup per enriched Team
\* actor that has a slug, then the create request.
LookupSlots(ruleset) ==
    {i \in DOMAIN ruleset.enriched_bypass_actors :
        /\ ruleset.enriched_bypass_actors[i].actor_type = "Team"
        /\ ruleset.enriched_bypass_actors[i].details # NoDetails
        /\ ruleset.enriched_bypass_actors[i].details.slug # ""}

PostSlot == MaxActors + 1

InjCost(injs) == Cardinality({i \in DOMAIN injs : injs[i] # 200})

IterInjections(f, ruleset, posts) ==
    {injs \in [1..PostSlot -> {200} \cup ApiFaults] :
        /\ \A i \in 1..PostSlot :
              injs[i] # 200 => \/ i \in LookupSlots(ruleset)
                               \/ i = PostSlot /\ posts
        /\ f + InjCost(injs) <= MaxFaults}

\* The bypass actors of the source rulesets.
SourceActors ==
    { Actor("Team", 11, "always"),
      Actor("Team", 12, "pull_request"),
      Actor("RepositoryRole", 5, "always"),
      Actor("Integration", 7, "always") }

NoActors == ExportedActors(<<>>, TRUE, 200)

\* GITHUB_TOKEN = SOURCE_GITHUB_TOKEN or TARGET_GITHUB_TOKEN or
\* os.getenv("GITHUB_TOKEN"); an unset or empty variable is "".
FallbackToken(GH_PAT, TARGET_GH_PAT, env_GITHUB_TOKEN) ==
    IF GH_PAT # "" THEN GH_PAT
    ELSE IF TARGET_GH_PAT # "" THEN TARGET_GH_PAT
    ELSE env_GITHUB_TOKEN

\* The module globals after load, for one environment.
LoadTokens(GH_PAT, TARGET_GH_PAT, env_GITHUB_TOKEN) ==
    /\ SOURCE_GITHUB_TOKEN = GH_PAT
    /\ TARGET_GITHUB_TOKEN = TARGET_GH_PAT
    /\ GITHUB_TOKEN = FallbackToken(GH_PAT, TARGET_GH_PAT, env_GITHUB_TOKEN)

\* headers = get_headers(token or GITHUB_TOKEN)
HeaderToken(token) == IF token # "" THEN token ELSE GITHUB_TOKEN

ListingRequest == Sent(Request("GET", "rulesets", ""), "")
CreateRequest == Sent(Request("POST", "rulesets", ""), "")

\* An import of one of `lists`, each a list of ruleset names.
RsInitWith(lists) ==
    /\ LoadTokens("source-pat", "target-pat", "")
    /\ rs_credentials = {}
    /\ report_file = <<>>
    /\ \E list \in lists :
        /\ rulesets_to_create = list
        /\ rs_actors = [i \in DOMAIN list |-> NoActors]
    /\ \E k \in 0..MaxOther : rs_target = [i \in 1..k |-> 0 - i]
    /\ rs_unique \in BOOLEAN
    /\ existing_rulesets = [n \in {} |-> 0]
    /\ report_entries = <<>>
    /\ rs_pc = "check"
    /\ rs_i = 1
    /\ rs_run = 1
    /\ rs_first = <<>>
    /\ rs_posts = 0
    /\ SANITIZE_BYPASS_ACTORS = TRUE
    /\ REMOVE_ALL_BYPASS_ACTORS = FALSE
    /\ target_teams = {}
    /\ start_teams = {}
    /\ rs_requests = {}
    /\ rs_payloads = <<>>

RsInit == RsInitWith({Items(n) : n \in 0..MaxRulesets})

\* An import of an export whose rulesets carry bypass actors and may lack a
\* name, under every setting of the three flags.
RsInitExportWith(maxn, pc, envs) ==
    /\ \E env \in envs : LoadTokens(env[1], env[2], env[3])
    /\ rs_credentials = {}
    /\ report_file = <<>>
    /\ \E n \in 0..maxn :
        \E named \in [1..n -> BOOLEAN],
           actors \in [1..n -> SeqsUpTo(SourceActors, MaxActors)],
           ENRICH_BYPASS_ACTORS \in BOOLEAN, status \in {200, 404} :
            /\ ~ENRICH_BYPASS_ACTORS => status = 200
            /\ rulesets_to_create = [i \in 1..n |-> IF named[i] THEN i ELSE NoName]
            /\ rs_actors = [i \in 1..n |->
                              ExportedActors(actors[i], ENRICH_BYPASS_ACTORS, status)]
    /\ rs_target = <<>>
    /\ rs_unique = TRUE
    /\ existing_rulesets = [n \in {} |-> 0]
    /\ report_entries = <<>>
    /\ rs_pc = pc
    /\ rs_i = 1
    /\ rs_run = 1
    /\ rs_first = <<>>
    /\ rs_posts = 0
    /\ SANITIZE_BYPASS_ACTORS \in BOOLEAN
    /\ REMOVE_ALL_BYPASS_ACTORS \in BOOLEAN
    /\ target_teams \in {{}, {"dev"}}
    /\ start_teams = target_teams
    /\ rs_requests = {}
    /\ rs_payloads = <<>>

\* Both tokens set, as the separate-token configuration has them.
BothTokens == {<<"source-pat", "target-pat", "">>}
RsInitExport == RsInitExportWith(MaxExported, "check", BothTokens)

\* Every setting of GH_PAT, TARGET_GH_PAT and GITHUB_TOKEN.
Environments == {"", "source-pat"} \X {"", "target-pat"} \X {"", "fallback-pat"}

RsIdle ==
    /\ LoadTokens("source-pat", "target-pat", "")
    /\ rs_credentials = {}
    /\ report_file = <<>>
    /\ rulesets_to_create = <<>>
    /\ rs_target = <<>>
    /\ rs_unique = TRUE
    /\ existing_rulesets = [n \in {} |-> 0]
    /\ report_entries = <<>>
    /\ rs_pc = "idle"
    /\ rs_i = 1
    /\ rs_run = 1
    /\ rs_first = <<>>
    /\ rs_posts = 0
    /\ rs_actors = <<>>
    /\ SANITIZE_BYPASS_ACTORS = TRUE
    /\ REMOVE_ALL_BYPASS_ACTORS = FALSE
    /\ target_teams = {}
    /\ start_teams = {}
    /\ rs_requests = {}
    /\ rs_payloads = <<>>

\* main up to the import: the start-up validation of the token (SOURCE_ORG and
\* TARGET_ORG are set, repos.csv names the repository).
RsMain ==
    /\ rs_pc = "start"
    /\ rs_pc' = IF GITHUB_TOKEN = "" THEN "exited" ELSE "check"
    /\ UNCHANGED <<rulesets_to_create, rs_target, rs_unique, existing_rulesets,
                   report_entries, rs_i, rs_run, rs_first, rs_posts, rs_actors,
                   SANITIZE_BYPASS_ACTORS, REMOVE_ALL_BYPASS_ACTORS, target_teams,
                   start_teams, rs_requests, rs_payloads>>
    /\ UNCHANGED <<rsConfig, rs_credentials, report_file>>
    /\ UNCHANGED <<pgVars, faults, rlVars, mgVars, whVars>>

\* import_rulesets_for_repo up to its for loop.
RsCheckExisting ==
    /\ rs_pc = "check"
    /\ \E inj \in ApiInjections(faults) :
        /\ existing_rulesets' = check_existing_rulesets(rs_target, inj)
        /\ faults' = faults + ApiFaultCost(inj)
    /\ report_entries' = <<>>
    /\ rs_i' = 1
    /\ rs_posts' = 0
    /\ rs_pc' = "loop"
    /\ start_teams' = target_teams
    /\ rs_requests' = {ListingRequest}
    /\ rs_credentials' = rs_credentials \cup {HeaderToken(TARGET_GITHUB_TOKEN)}
    /\ rs_payloads' = <<>>
    /\ UNCHANGED <<rsConfig, report_file>>
    /\ UNCHANGED <<rulesets_to_create, rs_target, rs_unique, rs_run, rs_first,
                   rs_actors, SANITIZE_BYPASS_ACTORS, REMOVE_ALL_BYPASS_ACTORS,
                   target_teams>>
    /\ UNCHANGED <<pgVars, rlVars, mgVars, whVars>>

\* One iteration of the for loop of import_rulesets_for_repo.  A ruleset
\* without a name leaves payload without the key 'name', and the f-string of
\* the "Attempting to create" log line, which reads payload['name'], raises
\* KeyError before the create request; nothing catches it.
RsImportRuleset ==
    /\ rs_pc = "loop"
    /\ rs_i <= Len(rulesets_to_create)
    /\ LET ruleset_name == rulesets_to_create[rs_i]
       IN IF ruleset_name \in DOMAIN existing_rulesets
          THEN /\ report_entries' = Append(report_entries, "Skipped")
               /\ rs_i' = rs_i + 1
               /\ UNCHANGED <<rs_target, rs_posts, faults, rs_pc, target_teams,
                              rs_requests, rs_payloads, rs_credentials>>
          ELSE \E injs \in IterInjections(faults, rs_actors[rs_i],
                                          ruleset_name # NoName) :
               \E res \in {ResolvedBypassActors(rs_actors[rs_i], target_teams, injs,
                                                REMOVE_ALL_BYPASS_ACTORS,
                                                SANITIZE_BYPASS_ACTORS)} :
                /\ target_teams' = res.teams
                /\ faults' = faults + InjCost(injs)
                /\ rs_credentials' =
                     IF res.requests = {} /\ ruleset_name = NoName
                     THEN rs_credentials
                     ELSE rs_credentials \cup {HeaderToken(TARGET_GITHUB_TOKEN)}
                /\ IF ruleset_name = NoName
                   THEN /\ rs_pc' = "raised"
                        /\ rs_requests' = rs_requests \cup res.requests
                        /\ UNCHANGED <<rs_target, report_entries, rs_posts, rs_i,
                                       rs_payloads>>
                   ELSE LET up == PostRuleset(rs_target, rs_unique, ruleset_name,
                                              injs[PostSlot])
                            response == make_api_request(up.status)
                        IN /\ rs_target' = up.target
                           /\ report_entries' =
                                Append(report_entries, MigrationStatus(response))
                           /\ rs_posts' = rs_posts + 1
                           /\ rs_i' = rs_i + 1
                           /\ rs_requests' = rs_requests \cup res.requests
                                                \cup {CreateRequest}
                           /\ rs_payloads' =
                                Append(rs_payloads,
                                       [ruleset |-> rs_i,
                                        bypass_actors |-> res.resolved,
                                        found |-> res.found,
                                        answers |-> res.answers])
                           /\ UNCHANGED rs_pc
    /\ UNCHANGED <<rulesets_to_create, rs_unique, existing_rulesets,
                   rs_run, rs_first, rs_actors, SANITIZE_BYPASS_ACTORS,
                   REMOVE_ALL_BYPASS_ACTORS, start_teams>>
    /\ UNCHANGED <<rsConfig, report_file>>
    /\ UNCHANGED <<pgVars, rlVars, mgVars, whVars>>

\* return report_entries
RsReturn ==
    /\ rs_pc = "loop"
    /\ rs_i > Len(rulesets_to_create)
    /\ rs_pc' = "done"
    /\ UNCHANGED <<rulesets_to_create, rs_target, rs_unique, existing_rulesets,
                   report_entries, rs_i, rs_run, rs_first, rs_posts, rs_actors,
                   SANITIZE_BYPASS_ACTORS, REMOVE_ALL_BYPASS_ACTORS, target_teams,
                   start_teams, rs_requests, rs_payloads>>
    /\ UNCHANGED <<rsConfig, rs_credentials, report_file>>
    /\ UNCHANGED <<pgVars, faults, rlVars, mgVars, whVars>>

\* main after the last repository: if full_report: save_validation_report.
RsSaveReport ==
    /\ rs_pc = "done"
    /\ rs_pc' = "saved"
    /\ report_file' = IF report_entries # <<>> THEN report_entries ELSE report_file
    /\ UNCHANGED <<rulesets_to_create, rs_target, rs_unique, existing_rulesets,
                   report_entries, rs_i, rs_run, rs_first, rs_posts, rs_actors,
                   SANITIZE_BYPASS_ACTORS, REMOVE_ALL_BYPASS_ACTORS, target_teams,
                   start_teams, rs_requests, rs_payloads>>
    /\ UNCHANGED <<rsConfig, rs_credentials>>
    /\ UNCHANGED <<pgVars, faults, rlVars, mgVars, whVars>>

\* KeyboardInterrupt while a request of the import is in flight.  It is no
\* RequestException, so make_api_request does not catch it, and neither
\* import_rulesets_for_repo nor main has a handler or a finally: the process
\* ends with the traceback.
RsInterrupt ==
    /\ rs_pc \in {"check", "loop"}
    /\ rs_pc = "loop" => rs_i <= Len(rulesets_to_create)
    /\ rs_pc' = "interrupted"
    /\ UNCHANGED <<rulesets_to_create, rs_target, rs_unique, existing_rulesets,
                   report_entries, rs_i, rs_run, rs_first, rs_posts, rs_actors,
                   SANITIZE_BYPASS_ACTORS, REMOVE_ALL_BYPASS_ACTORS, target_teams,
                   start_teams, rs_requests, rs_payloads>>
    /\ UNCHANGED <<rsConfig, rs_credentials, report_file>>
    /\ UNCHANGED <<pgVars, faults, rlVars, mgVars, whVars>>

\* The same list is imported into the same repository once more.
RsAgain ==
    /\ rs_pc = "done"
    /\ rs_run < MaxRuns
    /\ rs_run' = rs_run + 1
    /\ rs_first' = IF rs_run = 1 THEN report_entries ELSE rs_first
    /\ rs_pc' = "check"
    /\ UNCHANGED <<rulesets_to_create, rs_target, rs_unique, existing_rulesets,
                   report_entries, rs_i, rs_posts, rs_actors,
                   SANITIZE_BYPASS_ACTORS, REMOVE_ALL_BYPASS_ACTORS, target_teams,
                   start_teams, rs_requests, rs_payloads>>
    /\ UNCHANGED <<rsConfig, rs_credentials, report_file>>
    /\ UNCHANGED <<pgVars, faults, rlVars, mgVars, whVars>>

\* One call of make_api_request(method, url) as the clock sees it: the
\* request is issued at `now` and its response arrives lat seconds later.
\* The response's X-RateLimit-* headers are not read and nothing waits: the
\* call returns when the response (or the error) arrives.  No caller in
\* rulesets.py waits between two calls either.
RsApiRequest ==
    /\ now <= StartTime + MaxTime
    /\ \E lat \in 0..MaxLatency, remaining \in RemainingValues,
          response \in {make_api_request(st) : st \in {200, 201} \cup ApiFaults} :
         \E reset \in ResetValues(now + lat) :
            /\ rl_issuedAt' = now
            /\ rl_floorAtIssue' = rl_floor
            /\ now' = now + lat
            /\ rl_floor' = IF response # None /\ remaining = 0
                               /\ reset > now + lat /\ reset > rl_floor
                            THEN reset ELSE rl_floor
    /\ rl_slept' = FALSE
    /\ UNCHANGED <<rate_limit_remaining, rate_limit_reset>>
    /\ UNCHANGED <<pgVars, faults, mgVars, rsVars, whVars>>

----------------------------------------------------------------------------
(* Webhooks import: GitHubWebhookMigrator.import_webhooks                   *)

URLs == {"u1", "u2"}
WhRepoNames == {"t1", "t2"}

\* One value of exported_data['repositories']: its key, the source
\* repository, is the entry's position in the file.
RepoEntries == [target_repo : WhRepoNames, webhooks : SeqsUpTo(URLs, MaxHooks)]

\* The library call succeeds or raises GithubException.
CallOutcomes(f) == IF f < MaxFaults THEN {"ok", "GithubException"} ELSE {"ok"}
CallCost(o) == IF o = "ok" THEN 0 ELSE 1

\* _get_repository: the repository, or None on GithubException.
GetRepository(repos, repo_name, o) ==
    IF o = "ok" /\ repo_name \in repos THEN repo_name ELSE "None"

\* The upstream's handling of create_hook. Whether a second hook of a URL the
\* repository already holds is accepted depends on hook data outside this
\* model, so both answers are possible.
CreateHookOutcomes(hooks, url, f) ==
    IF url \in Range(hooks) THEN {"ok", "GithubException"} ELSE CallOutcomes(f)
CreateHookCost(hooks, url, o) ==
    IF url \in Range(hooks) THEN 0 ELSE CallCost(o)

WhInit ==
    /\ exported_data \in SeqsUpTo(RepoEntries, MaxRepoEntries)
    /\ wh_repos \in {{"t1"}, {"t1", "t2"}}
    /\ wh_hooks \in [WhRepoNames -> {<<>>, <<"u1">>}]
    /\ \A r \in WhRepoNames \ wh_repos : wh_hooks[r] = <<>>
    /\ existing_target_hooks = {}
    /\ migration_results = <<>>
    /\ wh_pc = "repo"
    /\ wh_r = 1
    /\ wh_h = 1
    /\ wh_run = 1
    /\ wh_dup_calls = 0

WhIdle ==
    /\ exported_data = <<>>
    /\ wh_repos = {}
    /\ wh_hooks = [r \in WhRepoNames |-> <<>>]
    /\ existing_target_hooks = {}
    /\ migration_results = <<>>
    /\ wh_pc = "idle"
    /\ wh_r = 1
    /\ wh_h = 1
    /\ wh_run = 1
    /\ wh_dup_calls = 0

\* One iteration of the outer for loop, up to the inner loop.
WhNextRepo ==
    /\ wh_pc = "repo"
    /\ wh_r <= Len(exported_data)
    /\ LET repo_data == exported_data[wh_r]
           target_repo == repo_data.target_repo
       IN IF repo_data.webhooks = <<>>
          THEN /\ wh_r' = wh_r + 1
               /\ UNCHANGED <<existing_target_hooks, migration_results, wh_pc,
                              wh_h, faults>>
          ELSE \E o1 \in CallOutcomes(faults) :
                IF GetRepository(wh_repos, target_repo, o1) = "None"
                THEN /\ migration_results' = Append(migration_results, "FAILED")
                     /\ wh_r' = wh_r + 1
                     /\ faults' = faults + CallCost(o1)
                     /\ UNCHANGED <<existing_target_hooks, wh_pc, wh_h>>
                ELSE \E o2 \in CallOutcomes(faults) :
                        /\ faults' = faults + CallCost(o2)
                        /\ IF o2 = "ok"
                           THEN /\ existing_target_hooks' =
                                    Range(wh_hooks[target_repo])
                                /\ wh_pc' = "hooks"
                                /\ wh_h' = 1
                           ELSE /\ wh_pc' = "raised"
                                /\ UNCHANGED <<existing_target_hooks, wh_h>>
                        /\ UNCHANGED <<migration_results, wh_r>>
    /\ UNCHANGED <<exported_data, wh_repos, wh_hooks, wh_run, wh_dup_calls>>
    /\ UNCHANGED <<pgVars, rlVars, mgVars, rsVars>>

\* One iteration of the inner for loop.
WhImportHook ==
    /\ wh_pc = "hooks"
    /\ wh_h <= Len(exported_data[wh_r].webhooks)
    /\ LET target_repo == exported_data[wh_r].target_repo
           webhook_url == exported_data[wh_r].webhooks[wh_h]
           held == wh_hooks[target_repo]
       IN IF webhook_url \in existing_target_hooks
          THEN /\ migration_results' = Append(migration_results, "SKIPPED")
               /\ UNCHANGED <<wh_hooks, wh_dup_calls, faults>>
          ELSE \E o \in CreateHookOutcomes(held, webhook_url, faults) :
                /\ wh_dup_calls' =
                     wh_dup_calls + (IF webhook_url \in Range(held) THEN 1 ELSE 0)
                /\ faults' = faults + CreateHookCost(held, webhook_url, o)
                /\ IF o = "ok"
                   THEN /\ wh_hooks' = [wh_hooks EXCEPT
                                          ![target_repo] = Append(held, webhook_url)]
                        /\ migration_results' = Append(migration_results, "SUCCESS")
                   ELSE /\ migration_results' = Append(migration_results, "FAILED")
                        /\ UNCHANGED wh_hooks
    /\ wh_h' = wh_h + 1
    /\ UNCHANGED <<exported_data, wh_repos, existing_target_hooks, wh_pc, wh_r,
                   wh_run>>
    /\ UNCHANGED <<pgVars, rlVars, mgVars, rsVars>>

\* The inner loop is exhausted: on to the next repository entry.
WhRepoDone ==
    /\ wh_pc = "hooks"
    /\ wh_h > Len(exported_data[wh_r].webhooks)
    /\ wh_r' = wh_r + 1
    /\ wh_pc' = "repo"
    /\ UNCHANGED <<exported_data, wh_repos, wh_hooks, existing_target_hooks,
                   migration_results, wh_h, wh_run, wh_dup_calls>>
    /\ UNCHANGED <<pgVars, faults, rlVars, mgVars, rsVars>>

\* The outer loop is exhausted: generate_csv_report, and return.
WhFinish ==
    /\ wh_pc = "repo"
    /\ wh_r > Len(exported_data)
    /\ wh_pc' = "done"
    /\ UNCHANGED <<exported_data, wh_repos, wh_hooks, existing_target_hooks,
                   migration_results, wh_r, wh_h, wh_run, wh_dup_calls>>
    /\ UNCHANGED <<pgVars, faults, rlVars, mgVars, rsVars>>

\* The import is run once more over the same file, by a new migrator.
WhAgain ==
    /\ wh_pc \in {"done", "raised"}
    /\ wh_run < MaxRuns
    /\ wh_run' = wh_run + 1
    /\ migration_results' = <<>>
    /\ wh_pc' = "repo"
    /\ wh_r' = 1
    /\ wh_h' = 1
    /\ UNCHANGED <<exported_data, wh_repos, wh_hooks, existing_target_hooks,
                   wh_dup_calls>>
    /\ UNCHANGED <<pgVars, faults, rlVars, mgVars, rsVars>>

----------------------------------------------------------------------------
(* Specifications *)

InitPaginate == PgInit /\ faults = 0 /\ RlInit /\ MgIdle /\ RsIdle /\ WhIdle
NextPaginate == PgFetchPage
SpecPaginate == InitPaginate /\ [][NextPaginate]_vars

\* The collector against an upstream that never serves a short page.
InitRunaway ==
    /\ PgInitWith("always-full", {0}) /\ faults = 0 /\ RlInit /\ MgIdle /\ RsIdle
    /\ WhIdle
SpecRunaway == InitRunaway /\ [][NextPaginate]_vars

\* _get_all_paginated_items against every upstream.
NextRepos == GpFetchPage
InitRepos ==
    /\ PgOnlyIdle /\ GpInit /\ TfIdle /\ faults = 0 /\ RlInit /\ MgIdle /\ RsIdle /\ WhIdle
SpecRepos == InitRepos /\ [][NextRepos]_vars

\* One call of the team fetcher's make_api_request against every upstream;
\* the for loop is not interrupted, so the iteration in turn is always taken.
NextTeams == TfAttempt
InitTeams ==
    /\ PgOnlyIdle /\ GpIdle /\ TfInit /\ faults = 0 /\ RlInit /\ MgIdle /\ RsIdle
    /\ WhIdle
SpecTeams == InitTeams /\ [][NextTeams]_vars /\ WF_vars(NextTeams)

InitRate == PgIdle /\ faults = 0 /\ RlInit /\ MgIdle /\ RsIdle /\ WhIdle
NextRate == RlTick \/ RlMakeRequest
SpecRate == InitRate /\ [][NextRate]_vars

NextMigrate == MigrateEntry \/ MigrateReturn \/ MigrateAgain

InitSecrets ==
    /\ PgIdle /\ faults = 0 /\ RlInit /\ RsIdle /\ WhIdle
    /\ MgInit("secrets", SecretEntries)
SpecSecrets == InitSecrets /\ [][NextMigrate]_vars

InitVariables ==
    /\ PgIdle /\ faults = 0 /\ RlInit /\ RsIdle /\ WhIdle
    /\ MgInit("variables", VariableEntries)
SpecVariables == InitVariables /\ [][NextMigrate]_vars

\* The secrets migrator facing targets that serve a malformed public key, on
\* rows that include a real value spelled like the placeholder.
MalformedChoices == {{}, {"org"}, {"r1"}}
SealEntries == SecretEntries \cup {Entry("repository", "r1", "B", PLACEHOLDER, "", <<>>)}
InitSeal ==
    /\ PgIdle /\ faults = 0 /\ RlInit /\ RsIdle /\ WhIdle
    /\ MgInitWith("secrets", SealEntries, MalformedChoices)
SpecSeal == InitSeal /\ [][NextMigrate]_vars

\* Either migrator, for what the two have in common.
\* Either migrator on organization rows of visibility 'selected' whose
\* selected_repositories column is empty, blank, or names one repository.
UnselectedEntries ==
    { Entry("organization", "", "A", "real", "selected", <<>>),
      Entry("organization", "", "B", "real", "selected", <<" ">>),
      Entry("organization", "", "A", "real", "selected", <<"r1">>) }
InitUnselected ==
    /\ PgIdle /\ faults = 0 /\ RlInit /\ RsIdle /\ WhIdle
    /\ \/ MgInit("secrets", UnselectedEntries)
       \/ MgInit("variables", UnselectedEntries)
SpecUnselected == InitUnselected /\ [][NextMigrate]_vars

InitMigrate == InitSecrets \/ InitVariables
SpecMigrate == InitMigrate /\ [][NextMigrate]_vars

\* The whole run of either migrator.
NextComplete == RcFetchAll \/ MigrateEntry \/ MigrateReturn \/ RcFinish
InitComplete ==
    /\ PgIdle /\ faults = 0 /\ RlInit /\ RsIdle /\ WhIdle
    /\ \/ RcInit("secrets", SecretEntries)
       \/ RcInit("variables", VariableEntries)
SpecComplete == InitComplete /\ [][NextComplete]_vars

NextRulesets == RsCheckExisting \/ RsImportRuleset \/ RsReturn \/ RsAgain
InitRulesets == PgIdle /\ faults = 0 /\ RlInit /\ MgIdle /\ RsInit /\ WhIdle
SpecRulesets == InitRulesets /\ [][NextRulesets]_vars

InitBypass == PgIdle /\ faults = 0 /\ RlInit /\ MgIdle /\ RsInitExport /\ WhIdle
SpecBypass == InitBypass /\ [][NextRulesets]_vars

NextWebhooks == WhNextRepo \/ WhImportHook \/ WhRepoDone \/ WhFinish \/ WhAgain
InitWebhooks == PgIdle /\ faults = 0 /\ RlInit /\ MgIdle /\ RsIdle /\ WhInit
SpecWebhooks == InitWebhooks /\ [][NextWebhooks]_vars

\* The import from the start of main, under every environment.
NextCredentials == RsMain \/ RsCheckExisting \/ RsImportRuleset \/ RsReturn
InitCredentials ==
    /\ PgIdle /\ faults = 0 /\ RlInit /\ MgIdle /\ WhIdle
    /\ RsInitExportWith(1, "start", Environments)
SpecCredentials == InitCredentials /\ [][NextCredentials]_vars

\* The import under external interrupts, up to the report file.
NextInterrupt ==
    RsCheckExisting \/ RsImportRuleset \/ RsReturn \/ RsSaveReport \/ RsInterrupt
SpecInterrupt == InitRulesets /\ [][NextInterrupt]_vars

\* Imports of lists in which two rulesets may share a name.
InitNamesakes ==
    /\ PgIdle /\ faults = 0 /\ RlInit /\ MgIdle /\ WhIdle
    /\ RsInitWith(SeqsUpTo({1, 2}, MaxListed))
SpecNamesakes == InitNamesakes /\ [][NextRulesets]_vars

NextRulesetsRate == RlTick \/ RsApiRequest
InitRulesetsRate == PgIdle /\ faults = 0 /\ RlInit /\ MgIdle /\ RsIdle /\ WhIdle
SpecRulesetsRate == InitRulesetsRate /\ [][NextRulesetsRate]_vars

----------------------------------------------------------------------------
(* C7: when every page request is answered 200, _get_paginated_data returns *)
(* exactly the N upstream items, in upstream order, none missing and none   *)
(* duplicated, for bare-array and wrapper-object pages, for every N         *)
(* (N = 0, N = per_page and N = per_page + 1 included).                     *)
C7_PaginationComplete ==
    (pg_pc = "returned" /\ ~pg_non200) => all_data = Items(pg_N)

C7_Witness ==
    /\ pg_pc = "returned" /\ ~pg_non200
    /\ pg_N = per_page + 1 /\ pg_shape = "repositories"
    /\ Len(all_data) = per_page + 1

(* C8: a list that _get_paginated_data returns normally holds every item of *)
(* the upstream collection: a page answered with a status other than 200 is *)
(* signalled to the caller, not returned as a shorter list.                 *)
C8_NoSilentLoss ==
    pg_pc = "returned" => all_data = Items(pg_N)

(* C9: after a response received through _make_request that reports a     *)
(* remaining quota below 10 and a reset time in the future, no request is   *)
(* issued before that reset time.                                           *)
C9_NoRequestBeforeReset ==
    rl_issuedAt >= 0 => rl_issuedAt >= rl_floorAtIssue

C9_Witness ==
    /\ rl_floorAtIssue > StartTime
    /\ rl_issuedAt >= rl_floorAtIssue
    /\ rate_limit_remaining = 0

----------------------------------------------------------------------------
(* Conditions on a migration the claims speak of *)

KnownScope(e) == e.scope \in {"organization", "repository"}
ValidScopes == \A i \in DOMAIN data : KnownScope(data[i])
DistinctKeys ==
    \A i, j \in DOMAIN data : i # j => EntryKey(data[i]) # EntryKey(data[j])
ExistedBefore(e) == KnownScope(e) /\ start_target[1][EntryKey(e)] # Absent
NoneExisted == \A i \in DOMAIN data : ~ExistedBefore(data[i])
\* Every target request succeeds: no fault is injected and every repository
\* a row names exists in the target.
AllRequestsSucceed ==
    /\ faults = 0
    /\ \A i \in DOMAIN data :
         data[i].scope = "repository" => data[i].repository \in target_repos
BothRunsDone == returned[1] # <<>> /\ returned[2] # <<>>
AllDisposed(r, d) ==
    /\ Len(outcome[r]) = Len(data)
    /\ \A i \in DOMAIN data : outcome[r][i] = d

(* C1 (as claimed): migrate_secrets is idempotent across runs: for every   *)
(* list of secrets with pairwise distinct (scope, repository, name), none   *)
(* in the target beforehand, every target request succeeding, the first run *)
(* counts every secret as success, the second counts every secret as        *)
(* skipped, issues no PUT and leaves the target unchanged.                  *)
C1_Idempotent ==
    (migrator = "secrets" /\ BothRunsDone /\ DistinctKeys /\ NoneExisted
        /\ AllRequestsSucceed)
    => /\ AllDisposed(1, "success")
       /\ AllDisposed(2, "skipped")
       /\ put_count[2] = 0
       /\ target = start_target[2]

(* C1 (amended): the same, for lists whose rows have scope organization or *)
(* repository and, unless placeholder creation is enabled, carry a real     *)
(* value.                                                                   *)
C1_IdempotentWithValues ==
    (migrator = "secrets" /\ BothRunsDone /\ DistinctKeys /\ NoneExisted
        /\ AllRequestsSucceed /\ ValidScopes
        /\ (create_placeholder \/ \A i \in DOMAIN data : ~NoRealValue(data[i].value)))
    => /\ AllDisposed(1, "success")
       /\ AllDisposed(2, "skipped")
       /\ returned[1] = <<Len(data), 0, 0>>
       /\ returned[2] = <<0, 0, Len(data)>>
       /\ put_count[2] = 0
       /\ target = start_target[2]

C1_Witness ==
    /\ migrator = "secrets" /\ BothRunsDone /\ DistinctKeys /\ NoneExisted
    /\ AllRequestsSucceed /\ ValidScopes /\ create_placeholder
    /\ Len(data) = 2
    /\ returned[1] = <<2, 0, 0>> /\ returned[2] = <<0, 0, 2>>
    /\ \E i \in DOMAIN data : data[i].scope = "repository"

(* C2: in create_organization_secret and create_repository_secret the PUT  *)
(* for a secret is issued only if the existence probe of the same call was  *)
(* answered 404; on every other probe answer no PUT is issued, so a secret  *)
(* the target already holds is never overwritten.                           *)
C2_PutOnlyAfter404 ==
    migrator = "secrets"
    => /\ \A i \in DOMAIN last_call :
            last_call[i].req = "put"
            => (last_call[1].req = "probe" /\ last_call[1].status = 404)
       /\ ~overwrote

(* C4 (as claimed): migrate_variables run twice with the same list against *)
(* a target that holds none of the variables records each variable as       *)
(* success in the first run and as skipped in the second.                   *)
C4_SecondRunSkips ==
    (migrator = "variables" /\ BothRunsDone /\ DistinctKeys /\ NoneExisted
        /\ AllRequestsSucceed /\ ValidScopes)
    => /\ AllDisposed(1, "success")
       /\ AllDisposed(2, "skipped")

(* C4 (amended): the first run records each variable as success (created); *)
(* the second run records each variable as success again (its POST is       *)
(* answered 409 and the variable is updated by PATCH), counts nothing as    *)
(* skipped and leaves the target as the first run left it.                  *)
C4_SecondRunUpdates ==
    (migrator = "variables" /\ BothRunsDone /\ DistinctKeys /\ NoneExisted
        /\ AllRequestsSucceed /\ ValidScopes)
    => /\ AllDisposed(1, "success")
       /\ AllDisposed(2, "success")
       /\ returned[1] = <<Len(data), 0, 0>>
       /\ returned[2] = <<Len(data), 0, 0>>
       /\ put_count[1] = Len(data)
       /\ put_count[2] = 2 * Len(data)
       /\ target = start_target[2]

C4_Witness ==
    /\ migrator = "variables" /\ BothRunsDone /\ DistinctKeys /\ NoneExisted
    /\ AllRequestsSucceed /\ ValidScopes
    /\ Len(data) = 2
    /\ returned[2] = <<2, 0, 0>> /\ put_count[2] = 4

RequestVisibility(e) ==
    IF e.scope = "repository" THEN ""
    ELSE IF e.visibility = "selected" /\ ParseSelected(e.selected_repositories) # <<>>
    THEN LET names == ParseSelected(e.selected_repositories)
         IN IF \E i \in DOMAIN names : names[i] \in target_repos
            THEN "selected" ELSE "private"
    ELSE e.visibility

\* The last row of the list for the key of row i.
LastRowFor(i) ==
    LET same == {j \in DOMAIN data : KnownScope(data[j])
                                     /\ EntryKey(data[j]) = EntryKey(data[i])}
    IN data[CHOOSE j \in same : \A m \in same : m <= j]

C10_QuotaHitIsRetried ==
    (migrator = "secrets" /\ last_call # <<>>)
    => LET n == Len(last_call)
       IN (/\ last_call[n].req = "put"
           /\ last_call[n].first = "quota" /\ last_call[n].hits = 1
           /\ \A i \in 1..(n - 1) : last_call[i].first = "ok")
          => outcome[run][Len(outcome[run])] # "error"

----------------------------------------------------------------------------
(* C3: importing the same list of rulesets of distinct names twice into a   *)
(* repository that held none of them, every request succeeding, reports     *)
(* every ruleset Success the first time and Skipped the second time, the    *)
(* second import issues no POST, and the repository ends with exactly one   *)
(* ruleset per name of the list.                                            *)
CountOf(s, x) == Cardinality({i \in DOMAIN s : s[i] = x})

C3_RulesetsIdempotent ==
    (rs_pc = "done" /\ rs_run = 2 /\ faults = 0) =>
        /\ \A i \in DOMAIN rs_first : rs_first[i] = "Success"
        /\ \A i \in DOMAIN report_entries : report_entries[i] = "Skipped"
        /\ rs_posts = 0
        /\ \A i \in DOMAIN rulesets_to_create :
                CountOf(rs_target, rulesets_to_create[i]) = 1

----------------------------------------------------------------------------
(* C6: whatever import_webhooks runs have happened, no target repository    *)
(* holds two hooks of one URL, and create_hook was never called for a URL   *)
(* the repository already held.                                             *)
C6_OneHookPerUrl ==
    /\ wh_dup_calls = 0
    /\ \A r \in WhRepoNames : \A u \in URLs : CountOf(wh_hooks[r], u) <= 1

----------------------------------------------------------------------------
(* C11: after a response of make_api_request that reports a remaining quota *)
(* of 0 and a reset time in the future, the ruleset export and import issue *)
(* no request before that reset time.                                       *)
C11_RulesetsWaitForReset ==
    rl_floorAtIssue > 0 => rl_issuedAt >= rl_floorAtIssue

----------------------------------------------------------------------------
(* Conditions on the last create_* call of a migration *)

\* A handler ran in the last step; LastEntry is the row it was given.
HandlerRan == migrator \in {"secrets", "variables"} /\ last_call # <<>> /\ idx > 1
LastEntry == data[idx - 1]
LastNames == ParseSelected(LastEntry.selected_repositories)
\* Every request of the call was answered as the upstream's state says.
LastCallClean == \A i \in DOMAIN last_call : last_call[i].first = "ok"
\* The call issued its create (or update) request.
LastCallWrote ==
    \E i \in DOMAIN last_call : last_call[i].req \in {"put", "post", "patch"}
LastOrgSelected ==
    /\ HandlerRan /\ LastCallClean /\ LastCallWrote
    /\ LastEntry.scope = "organization"
    /\ LastEntry.visibility = "selected"
    /\ LastNames # <<>>
\* The names of the row that the target organization holds, in row order.
InTarget(n) == n \in target_repos
PresentNames == SelectSeq(LastNames, InTarget)
\* The value the create request of the row carries.
RequestValue(e) ==
    IF migrator = "secrets" /\ NoRealValue(e.value) THEN PLACEHOLDER ELSE e.value

(* C12: when create_organization_secret or create_organization_variable is *)
(* called with visibility 'selected' and a non-empty list of repository     *)
(* names none of which is in the target organization, the request carries   *)
(* visibility 'private' and no selected_repository_ids, and the entity is   *)
(* created (the call succeeds).                                             *)
C12_DowngradeToPrivate ==
    (LastOrgSelected /\ PresentNames = <<>>)
    => /\ target[EntryKey(LastEntry)].visibility = "private"
       /\ target[EntryKey(LastEntry)].selected = <<>>
       /\ target[EntryKey(LastEntry)].value = RequestValue(LastEntry)
       /\ outcome[run][Len(outcome[run])] = "success"

C12_Witness ==
    /\ LastOrgSelected /\ PresentNames = <<>>
    /\ migrator = "secrets"
    /\ Len(LastNames) = 2
    /\ start_target[run][EntryKey(LastEntry)] = Absent
    /\ target[EntryKey(LastEntry)].visibility = "private"

(* C13: for a 'selected' organization variable or secret whose repository  *)
(* names are partly present in the target, the request keeps visibility     *)
(* 'selected', its selected_repository_ids are exactly the target's ids of  *)
(* the present names, in source order, and the value is copied unchanged.   *)
C13_SelectedKeepsPresent ==
    (LastOrgSelected /\ PresentNames # <<>>)
    => /\ target[EntryKey(LastEntry)].visibility = "selected"
       /\ target[EntryKey(LastEntry)].selected =
            [i \in DOMAIN PresentNames |-> TargetRepoId(PresentNames[i])]
       /\ target[EntryKey(LastEntry)].value = RequestValue(LastEntry)
       /\ outcome[run][Len(outcome[run])] = "success"

C13_Witness ==
    /\ LastOrgSelected
    /\ migrator = "variables"
    /\ Len(LastNames) = 2 /\ Len(PresentNames) = 1
    /\ target[EntryKey(LastEntry)].selected = <<TargetRepoId(PresentNames[1])>>
    /\ target[EntryKey(LastEntry)].value = LastEntry.value

----------------------------------------------------------------------------
(* C14: under every setting of the flags and every form of the export, every *)
(* Team actor of a create payload sent by import_rulesets_for_repo carries   *)
(* an id that the target's team lookup returned while that ruleset was       *)
(* resolved, the id of a team the target organization holds; a Team whose    *)
(* slug the target lacks is in no payload.                                   *)
C14_TeamsFromTargetLookup ==
    \A p \in Range(rs_payloads) : \A k \in DOMAIN p.bypass_actors :
        p.bypass_actors[k].actor_type = "Team" =>
            /\ p.bypass_actors[k].actor_id \in p.found
            /\ \E slug \in target_teams :
                  TargetTeamId(slug) = p.bypass_actors[k].actor_id

----------------------------------------------------------------------------
(* C15: with REMOVE_ALL_BYPASS_ACTORS false, every RepositoryRole actor of a *)
(* source ruleset is in that ruleset's create payload with the same actor_id *)
(* and bypass_mode, whether the actors were resolved from the enriched list  *)
(* or sanitized, and no request is sent on behalf of a RepositoryRole.       *)
SourceRoles(i) ==
    {rs_actors[i].bypass_actors[k] : k \in
        {j \in DOMAIN rs_actors[i].bypass_actors :
            rs_actors[i].bypass_actors[j].actor_type = "RepositoryRole"}}

C15_RolesPassThrough ==
    ~REMOVE_ALL_BYPASS_ACTORS =>
        /\ \A p \in Range(rs_payloads) :
              SourceRoles(p.ruleset) \subseteq Range(p.bypass_actors)
        /\ \A r \in rs_requests : r.actor_type # "RepositoryRole"

\* A ruleset whose enriched list holds a role and a team was resolved with a
\* team lookup and its payload was sent with the role in it.
C15_Witness ==
    /\ ~REMOVE_ALL_BYPASS_ACTORS
    /\ \E p \in Range(rs_payloads) :
        /\ rs_actors[p.ruleset].enriched_bypass_actors # <<>>
        /\ SourceRoles(p.ruleset) # {}
        /\ SourceRoles(p.ruleset) \subseteq Range(p.bypass_actors)
        /\ p.found # {}

----------------------------------------------------------------------------
(* C16: an import never creates a team: every request it sends to a team     *)
(* endpoint is a GET, its only request that is not a GET is the POST to the  *)
(* repository's rulesets collection, and the target organization holds the   *)
(* same teams as when the import started.                                    *)
C16_NeverCreatesTeam ==
    /\ \A r \in rs_requests :
          /\ r.request.endpoint = "teams" => r.request.method = "GET"
          /\ r.request.method # "GET" => r = CreateRequest
    /\ target_teams = start_teams

\* An import has returned after it looked up a team the target lacks and
\* sent a create request.
C16_Witness ==
    /\ rs_pc = "done"
    /\ CreateRequest \in rs_requests
    /\ \E r \in rs_requests :
          r.request.endpoint = "teams" /\ r.request.key \notin start_teams

----------------------------------------------------------------------------
(* C18: import_rulesets_for_repo never stops before its return, and when it *)
(* returns report_entries holds one entry per input ruleset, each Skipped,   *)
(* Success or Failed.                                                        *)
C18_OneEntryPerRuleset ==
    /\ rs_pc # "raised"
    /\ rs_pc = "done" =>
          /\ Len(report_entries) = Len(rulesets_to_create)
          /\ \A i \in DOMAIN report_entries :
                report_entries[i] \in {"Skipped", "Success", "Failed"}

----------------------------------------------------------------------------
(* C17: migrate_secrets and migrate_variables count every entry exactly     *)
(* once, whatever its requests were answered or raised: after k entries the  *)
(* three counters sum to k, and a run returns only after all N entries, with *)
(* success_count + error_count + skipped_count = N.                          *)
C17_EveryEntryCounted ==
    migrator \in {"secrets", "variables"} =>
        /\ success_count + error_count + skipped_count = idx - 1
        /\ Len(outcome[run]) = idx - 1
        /\ \A r \in 1..2 : returned[r] # <<>> =>
              /\ Len(outcome[r]) = Len(data)
              /\ returned[r][1] + returned[r][2] + returned[r][3] = Len(data)

\* A run has returned in which the first entry failed on a request and the
\* second one was migrated.
C17_Witness ==
    /\ migrator \in {"secrets", "variables"}
    /\ ValidScopes
    /\ faults = 1
    /\ returned[1] = <<1, 1, 0>>
    /\ outcome[1] = <<"error", "success">>

----------------------------------------------------------------------------
(* C19: import_webhooks never stops before generate_csv_report, whatever the *)
(* target answers for a repository or a webhook, and when it has finished    *)
(* migration_results holds at least one outcome for every repository entry   *)
(* of the file that lists a webhook.                                         *)
C19_AlwaysFullReport ==
    /\ wh_pc # "raised"
    /\ wh_pc = "done" =>
          Len(migration_results) >=
             Cardinality({i \in DOMAIN exported_data :
                             exported_data[i].webhooks # <<>>})

----------------------------------------------------------------------------
(* C20: once a request of migrate_secrets is answered 401, or 403 with quota *)
(* left, the run issues no further request: the request is the last one of   *)
(* its entry, and the entries after it issue none.                           *)
C20_AuthFailureStopsRun ==
    migrator = "secrets" =>
        /\ \A i \in DOMAIN last_call :
              AuthFailure(last_call[i]) => i = Len(last_call)
        /\ auth_failed => last_call = <<>>

----------------------------------------------------------------------------
(* C21: when the source organization answers the listing requests of        *)
(* run_complete_migration with 401 or 404, the run ends with an exception    *)
(* (main returns 1), not with a normal return, and sends no request to the   *)
(* target.                                                                   *)
C21_SourceFailureIsFatal ==
    (migrator = "secrets" /\ source_answer \in {401, 404}
        /\ rc_pc \in {"returned", "raised"}) =>
        /\ rc_pc = "raised"
        /\ \A r \in rc_requests : r.org # "target"

----------------------------------------------------------------------------
(* Secret creation: placeholders, sealing, the public-key cache *)

\* The PUTs of the last create_*_secret call.
LastPuts == {i \in DOMAIN last_call : last_call[i].req = "put"}
Tagged(c) == c.action = "Created/Updated [PLACEHOLDER]"

\* C22: a secret without a real value (the export sentinel, or blank), with
\* placeholder creation enabled, is sealed and sent as the literal
\* PLACEHOLDER_VALUE_SET_MANUALLY, counted as success when the PUT is accepted,
\* and logged with the [PLACEHOLDER] tag; a secret with a real value is never
\* logged with that tag.
C22_PlaceholderTagOnlyWithoutRealValue ==
    (migrator = "secrets" /\ idx > 1 /\ last_call # <<>>) =>
        \A i \in LastPuts :
            LET c == last_call[i]
            IN /\ (NoRealValue(LastEntry.value) /\ create_placeholder) =>
                     /\ c.value = PLACEHOLDER
                     /\ c.payload.encrypted_value.plain = PLACEHOLDER
                     /\ SecretPutSucceeded(c.status) =>
                          /\ Tagged(c)
                          /\ outcome[run][idx - 1] = "success"
               /\ ~NoRealValue(LastEntry.value) => ~Tagged(c)

\* The scopes this migrator object holds a public key of.
Cached == org_public_key_cache \cup repo_public_key_cache
\* The scope a row's secret is sealed for.
ScopeOf(e) == IF e.scope = "organization" THEN "org" ELSE e.repository

\* C23: every secret PUT follows a successful public-key fetch for its scope
\* (earlier in the call, or in an earlier call of the same migrator object);
\* it names the key_id of the key that sealed its encrypted_value, the key of
\* its own scope; when the key fetch or the encryption fails no PUT is issued
\* and the secret is counted as error.
C23_KeyThenSealThenPut ==
    [][(migrator = "secrets" /\ idx' = idx + 1) =>
        /\ \A i \in DOMAIN last_call' :
             LET c == last_call'[i]
             IN /\ c.req = "put" =>
                     /\ \/ c.scope \in Cached
                        \/ \E j \in 1..(i - 1) :
                              /\ last_call'[j].req = "key"
                              /\ last_call'[j].status = 200
                              /\ last_call'[j].scope = c.scope
                     /\ c.scope = ScopeOf(data[idx])
                     /\ c.sealed_with = PublicKey(c.scope)
                     /\ c.payload.encrypted_value.box = c.sealed_with.key
                     /\ c.payload.key_id = c.sealed_with.key_id
                /\ (c.req = "key" /\ c.status # 200) =>
                     /\ \A j \in DOMAIN last_call' : last_call'[j].req # "put"
                     /\ outcome'[run][idx] = "error"
        /\ (/\ data[idx].scope \in {"organization", "repository"}
            /\ ScopeOf(data[idx]) \in malformed_keys) =>
               /\ \A j \in DOMAIN last_call' : last_call'[j].req # "put"
               /\ outcome'[run][idx] \in {"error", "skipped"}
               /\ (/\ ScopeOf(data[idx]) \in Cached'
                   /\ last_call'[1].status = 404) => outcome'[run][idx] = "error"
      ]_vars

\* A call fetched the key of its scope and then issued its PUT.
C23_Witness ==
    /\ migrator = "secrets"
    /\ \E i, j \in DOMAIN last_call :
         /\ i < j
         /\ last_call[i].req = "key" /\ last_call[i].status = 200
         /\ last_call[j].req = "put" /\ last_call[j].scope = last_call[i].scope
         /\ last_call[j].scope # "org"

KeyRequests(log) == {i \in DOMAIN log : log[i].req = "key"}

\* C24: a public key is requested only for a scope this migrator object holds
\* no key of; a fetch answered 200 caches the key and any other answer caches
\* nothing; a cached scope stays cached whatever the PUT is answered, a call
\* issues at most one key request and one PUT, and the caches are emptied
\* only by a new process.
C24_KeyFetchedOncePerScope ==
    [][migrator = "secrets" =>
        /\ (idx' = idx + 1) =>
             /\ org_public_key_cache \subseteq org_public_key_cache'
             /\ repo_public_key_cache \subseteq repo_public_key_cache'
             /\ Cardinality(KeyRequests(last_call')) <= 1
             /\ Cardinality({i \in DOMAIN last_call' : last_call'[i].req = "put"}) <= 1
             /\ \A i \in KeyRequests(last_call') :
                  LET c == last_call'[i]
                  IN /\ c.scope \notin Cached
                     /\ c.status = 200 => Cached' = Cached \cup {c.scope}
                     /\ c.status # 200 => Cached' = Cached
             /\ KeyRequests(last_call') = {} => Cached' = Cached
        /\ (idx' # idx + 1 /\ Cached' # Cached) => (run' # run /\ Cached' = {})
      ]_vars

\* A PUT sealed with a key cached by an earlier call, after an entry of this
\* run was counted as error.
C24_Witness ==
    /\ migrator = "secrets" /\ idx > 2
    /\ outcome[run][idx - 2] = "error"
    /\ KeyRequests(last_call) = {}
    /\ \E i \in DOMAIN last_call :
         last_call[i].req = "put" /\ last_call[i].scope \in Cached

----------------------------------------------------------------------------
(* The target repository mapping *)

\* C25: one process enumerates the target organization's repositories at most
\* once, whatever the target holds and whatever the listing is answered, and
\* a create or update request of a 'selected' entity with repository names is
\* issued only after an enumeration.
C25_MappingBuiltOncePerRun ==
    /\ list_count <= 1
    /\ (/\ HandlerRan
        /\ LastEntry.scope = "organization"
        /\ LastEntry.visibility = "selected"
        /\ LastNames # <<>>) =>
            \A i \in DOMAIN last_call :
                last_call[i].req \in {"put", "post", "patch"} =>
                    \/ \E j \in 1..(i - 1) : last_call[j].req = "list"
                    \/ list_count > ListRequests(last_call)

----------------------------------------------------------------------------
(* Credentials of the rulesets import *)

\* C26: under every environment that passes the start-up validation, every
\* request the import sends to the target (listing, team lookup, create)
\* carries the target token when one is set, and never the source token.
C26_TargetRequestsUseTargetToken ==
    \A t \in rs_credentials :
        /\ TARGET_GITHUB_TOKEN # "" => t = TARGET_GITHUB_TOKEN
        /\ t # SOURCE_GITHUB_TOKEN

\* C27: every request sent with the source session or the source token, or
\* addressed to the source organization, is a GET; every PUT, POST and PATCH
\* is addressed to the target organization; the source organization holds
\* after the run what it held before.
C27_SourceOnlyRead ==
    /\ \A r \in rc_requests :
         /\ (r.session = "source" \/ r.org = "source") => r.method = "GET"
         /\ r.method # "GET" => r.org = "target"
    /\ rc_pc \in {"returned", "raised"} =>
         source_entries = SourceAfter(source_entries, rc_requests)
    /\ (SOURCE_GITHUB_TOKEN # "" /\ SOURCE_GITHUB_TOKEN \in rs_credentials) =>
         \A s \in rs_requests : s.request.method = "GET"

----------------------------------------------------------------------------
(* Termination of the paginated collectors *)

\* C28: against an upstream that answers every page number with a full page,
\* _get_paginated_data has stopped by the time it has made MaxPages page
\* requests.
C28_CollectorStopsOnFullPages ==
    (pg_upstream = "always-full" /\ page > MaxPages) => pg_pc # "loop"

----------------------------------------------------------------------------
(* Interrupts *)

\* C30: when the import is interrupted after k rulesets have been processed,
\* the k records accumulated are in the report file.
C30_InterruptFlushesRecords ==
    rs_pc = "interrupted" => report_file = report_entries

----------------------------------------------------------------------------
(* Existence checks of the rulesets import *)

\* C31: a create POST for a name is issued only when the target repository
\* holds no ruleset of that name, also when the existence listing failed or
\* returned only a part of the target's rulesets.
C31_NoPostForPresentName ==
    [][rs_posts' = rs_posts + 1 =>
          rulesets_to_create[rs_i] \notin Range(rs_target)]_vars

\* C32: within one call of import_rulesets_for_repo into a repository that
\* held no ruleset of the list's names, at most one ruleset per name is
\* created, and a ruleset whose name an earlier ruleset of the list carries
\* is reported Skipped.
C32_OneRulesetPerName ==
    rs_run = 1 =>
        /\ \A i \in DOMAIN rulesets_to_create :
              CountOf(rs_target, rulesets_to_create[i]) <= 1
        /\ \A i \in DOMAIN report_entries :
              (\E j \in 1..(i - 1) : rulesets_to_create[j] = rulesets_to_create[i])
                  => report_entries[i] = "Skipped"

----------------------------------------------------------------------------
(* C33: a Team actor of the enriched list is left out of its ruleset's       *)
(* create payload only when the target's lookup of its slug was answered     *)
(* 404; after a lookup that failed otherwise (5xx, 403, no connection) the   *)
(* Team is not treated as absent from the target.                            *)
TeamKept(p, slot) ==
    LET e == rs_actors[p.ruleset].enriched_bypass_actors[slot]
    IN Actor("Team", TargetTeamId(e.details.slug), e.bypass_mode)
           \in Range(p.bypass_actors)

C33_TeamDroppedOnlyOn404 ==
    \A p \in Range(rs_payloads) : \A a \in p.answers :
        ~TeamKept(p, a.slot) => a.status = 404

----------------------------------------------------------------------------
(* C35: with REMOVE_ALL_BYPASS_ACTORS true, no create payload sent by the    *)
(* import has a bypass_actors field, whether the export file holds           *)
(* enriched_bypass_actors or only the plain bypass_actors.                   *)
C35_RemoveAllRemovesAll ==
    REMOVE_ALL_BYPASS_ACTORS =>
        \A p \in Range(rs_payloads) : p.bypass_actors = <<>>

----------------------------------------------------------------------------
(* C34: every create or update request for an organization secret or         *)
(* variable that carries visibility 'selected' also carries a non-empty      *)
(* selected_repository_ids, for every row, a 'selected' row with an empty    *)
(* list of repository names included.                                        *)
LastOrgWrote ==
    /\ HandlerRan /\ LastCallClean /\ LastCallWrote
    /\ LastEntry.scope = "organization"

C34_SelectedCarriesIds ==
    LastOrgWrote =>
        (target[EntryKey(LastEntry)].visibility = "selected"
            => target[EntryKey(LastEntry)].selected # <<>>)

----------------------------------------------------------------------------
(* C36: with create_placeholder false, a create_*_secret call for a row      *)
(* without a real value (the sentinel or a blank value) whose secret the     *)
(* target does not hold fetches no public key, sends no PUT and is counted   *)
(* as error; if the target holds the secret and the probe is answered, the   *)
(* call is counted as skipped, the probe being its only request.             *)
LastValueless ==
    /\ HandlerRan /\ migrator = "secrets" /\ ~create_placeholder
    /\ LastEntry.scope \in {"organization", "repository"}
    /\ (LastEntry.value = SENTINEL \/ Strip(LastEntry.value) = "")

LastSent(kinds) == \E i \in DOMAIN last_call : last_call[i].req \in kinds

C36_ValuelessWithoutPlaceholder ==
    LastValueless =>
        /\ ~LastSent({"key", "put"})
        /\ target[EntryKey(LastEntry)] = Absent
              => outcome[run][Len(outcome[run])] = "error"
        /\ (target[EntryKey(LastEntry)] # Absent /\ LastCallClean)
              => outcome[run][Len(outcome[run])] = "skipped"

\* Both cases happened in one run: a blank row whose secret the target lacks
\* was counted as error and a sentinel row whose secret it holds as skipped.
C36_Witness ==
    /\ LastValueless /\ LastCallClean /\ idx = 3
    /\ NoRealValue(data[1].value) /\ data[1].value # SENTINEL
    /\ target[EntryKey(data[1])] = Absent
    /\ data[2].value = SENTINEL
    /\ target[EntryKey(data[2])] # Absent
    /\ outcome[run] = <<"error", "skipped">>
    /\ error_count = 1 /\ skipped_count = 1

----------------------------------------------------------------------------
(* C37: a repository row whose repository the target organization does not   *)
(* hold (the target answers 404) is counted as skipped, not as error.        *)
LastRepoMissing ==
    /\ HandlerRan /\ LastCallClean
    /\ LastEntry.scope = "repository"
    /\ LastEntry.repository \notin target_repos

C37_MissingRepoIsSkipped ==
    LastRepoMissing =>
        /\ outcome[run][Len(outcome[run])] = "skipped"
        /\ error_count = Cardinality({i \in DOMAIN outcome[run] :
                                         outcome[run][i] = "error"})

----------------------------------------------------------------------------
(* C38: GitHubTeamFetcher.make_api_request ends after at most max_retries    *)
(* requests whatever the responses and exceptions are; it then returns the   *)
(* last response or raises the last exception; a 404 is returned at once;    *)
(* and the request that follows a 403 'rate limit exceeded' response is not  *)
(* issued before the reset time that response reported.                      *)
TfEnded == tf_pc \in {"returned", "raised"}

====
